---- MODULE Spec2Model ----
(***************************************************************************)
(* A model of the goschtalt configuration library: option application,     *)
(* record collection, the merge fold, variable expansion and the Config    *)
(* operations Compile, Marshal and Unmarshal that run under Config.mutex.   *)
(***************************************************************************)
EXTENDS Integers, Sequences, FiniteSets, TLC

VARIABLES
    defaults,     \* options.defaults: default records in declaration order
    values,       \* options.values: value records in declaration order
    sorter,       \* options.sorter: the configured record sorter
    filegroups,   \* options.filegroups
    expansions,   \* options.expansions: expand directives in declaration order
    expMax,       \* the max handed to expandTree
    marshalOptions,   \* options.marshalOptions: the Config's default marshal options
    unmarshalOptions, \* options.unmarshalOptions: the Config's default unmarshal options
    declared,     \* history: the AddBuffer options in the order they were given
    tree,         \* Config.tree: the compiled tree
    compiledAt,   \* Config.compiledAt: 0 is the zero time
    records,      \* Config.records: names of the merged records, in merge order
    mutex,        \* Config.mutex: 0 when free, else the goroutine holding it
    pc,           \* per goroutine: position in its current call
    op,           \* per goroutine: the call it is in
    ret,          \* per goroutine: what its last call returned
    fgOut,        \* result of the last filegroupsToRecords call
    expOut,       \* result of the last expandTree call
    call          \* history: the last recorded call, its arguments and what it returned

vars == <<defaults, values, sorter, filegroups, expansions, expMax,
          marshalOptions, unmarshalOptions, declared, tree,
          compiledAt, records, mutex, pc, op, ret, fgOut, expOut, call>>

optVars == <<defaults, values, sorter, filegroups, expansions, expMax,
            marshalOptions, unmarshalOptions, declared>>
cfgVars == <<tree, compiledAt, records>>

\* ---- bounds --------------------------------------------------------------

MaxRecords == 2
MaxCompiledAt == 2
NumThreads == 2
MaxExpansions == 2
MaxFilegroups == 3
MaxExpMax == 3

Threads == 1..NumThreads

\* ---- the tree model (pkg/meta Object) -------------------------------------

EmptyMap == [k \in {} |-> 0]

\* A scalar's Value is its string, held as the sequence of its tokens: a token
\* is a literal piece of text or one start-name-end placeholder.
Scalar(v, origins) ==
    [Kind |-> "scalar", Value |-> v, Array |-> <<>>, Map |-> EmptyMap, Origins |-> origins]

ArrayOf(elems, origins) ==
    [Kind |-> "array", Value |-> <<>>, Array |-> elems, Map |-> EmptyMap, Origins |-> origins]

MapOf(m, origins) ==
    [Kind |-> "map", Value |-> <<>>, Array |-> <<>>, Map |-> m, Origins |-> origins]

\* meta.Object{}: the zero object
EmptyObject == Scalar(<<>>, <<>>)

IsEmpty(obj) ==
    /\ obj.Kind = "scalar"
    /\ obj.Value = <<>>
    /\ obj.Origins = <<>>

\* ---- decoding (the json test decoder) -------------------------------------

\* The byte buffers the model feeds to the decoder.
Buffers == {"{a:1}", "{a:2,b:2}", "{a:[1,2,3]}", "{a:[9]}", "{a:{x:1}}", "{"}

\* meta.ObjectFromRaw of the decoded json: the tree without origins.
ObjectFromRaw(b) ==
    CASE b = "{a:1}" -> MapOf([k \in {"a"} |-> Scalar(<<"1">>, <<>>)], <<>>)
      [] b = "{a:2,b:2}" -> MapOf([k \in {"a", "b"} |-> Scalar(<<"2">>, <<>>)], <<>>)
      [] b = "{a:[1,2,3]}" ->
            MapOf([k \in {"a"} |->
                ArrayOf(<<Scalar(<<"1">>, <<>>), Scalar(<<"2">>, <<>>), Scalar(<<"3">>, <<>>)>>, <<>>)], <<>>)
      [] b = "{a:[9]}" -> MapOf([k \in {"a"} |-> ArrayOf(<<Scalar(<<"9">>, <<>>)>>, <<>>)], <<>>)
      [] b = "{a:{x:1}}" ->
            MapOf([k \in {"a"} |-> MapOf([j \in {"x"} |-> Scalar(<<"1">>, <<>>)], <<>>)], <<>>)
      [] b = "{a:${A}}" -> MapOf([k \in {"a"} |-> Scalar(<<"${A}">>, <<>>)], <<>>)
      [] b = "{a:${S}}" -> MapOf([k \in {"a"} |-> Scalar(<<"${S}">>, <<>>)], <<>>)
      [] b = "{a:${P}}" -> MapOf([k \in {"a"} |-> Scalar(<<"${P}">>, <<>>)], <<>>)
      [] b = "{a:${U},b:${B}}" ->
            MapOf([k \in {"a", "b"} |->
                IF k = "a" THEN Scalar(<<"${U}">>, <<>>) ELSE Scalar(<<"${B}">>, <<>>)], <<>>)
      [] b = "{a:[1,x${B}]}" ->
            MapOf([k \in {"a"} |->
                ArrayOf(<<Scalar(<<"1">>, <<>>), Scalar(<<"x", "${B}">>, <<>>)>>, <<>>)], <<>>)
      [] OTHER -> EmptyObject

\* json.Decoder.Decode fails on malformed input.
DecodeFails(b) == b = "{"

RECURSIVE addOrigin(_, _)
addOrigin(obj, origin) ==
    [obj EXCEPT !.Origins = obj.Origins \o <<origin>>,
                !.Array = [i \in DOMAIN obj.Array |-> addOrigin(obj.Array[i], origin)],
                !.Map = [k \in DOMAIN obj.Map |-> addOrigin(obj.Map[k], origin)]]

\* testDecoder.Decode: [err, tree]
Decode(filename, b) ==
    IF DecodeFails(b)
    THEN [err |-> "ErrDecoding", tree |-> EmptyObject]
    ELSE [err |-> "nil", tree |-> addOrigin(ObjectFromRaw(b), filename)]

\* codecRegistry.find: the extensions with a registered decoder.
DecoderExts == {"json"}

\* filepath.Ext of the names the model uses, without the dot.
Ext(name) ==
    CASE name \in {"9.json", "10.json", "1.json", "2.json", "example.json"} -> "json"
      [] name \in {"notes.txt"} -> "txt"
      [] OTHER -> ""

\* ---- the merge engine (meta.Object.Merge) ---------------------------------

MergeErr == [err |-> "ErrConflict", obj |-> EmptyObject]
MergeOk(o) == [err |-> "nil", obj |-> o]

\* two scalars with the earlier one kept
MergeScalarEarlierWins(obj, next) ==
    MergeOk([obj EXCEPT !.Origins = obj.Origins \o next.Origins])

\* two scalars: the later one wins, the origins concatenate
MergeScalar(obj, next) ==
    MergeOk([next EXCEPT !.Origins = obj.Origins \o next.Origins])

\* two arrays joined, the later one's elements after the earlier one's
MergeArrayAppend(obj, next) ==
    MergeOk([next EXCEPT !.Array = obj.Array \o next.Array,
                         !.Origins = obj.Origins \o next.Origins])

\* two arrays: the later one replaces the earlier one wholesale
MergeArray(obj, next) == MergeOk(next)

\* two shapes with the later one silently kept
MergeConflictKeepLater(obj, next) == MergeOk(next)

\* a map, an array and a scalar do not merge with one another
MergeConflict(obj, next) == MergeErr

\* two maps whose keys were merged into sub
MergeMapOf(obj, next, sub) ==
    IF \E k \in DOMAIN sub : sub[k].err # "nil"
    THEN MergeErr
    ELSE MergeOk(MapOf([k \in DOMAIN sub |-> sub[k].obj], obj.Origins \o next.Origins))

\* meta.Object.Merge: [err, obj].  A key only one side has is taken from
\* that side; a key both sides have is merged recursively.
RECURSIVE Merge(_, _)
Merge(obj, next) ==
    IF IsEmpty(obj) THEN MergeOk(next)
    ELSE IF IsEmpty(next) THEN MergeOk(obj)
    ELSE IF obj.Kind # next.Kind THEN MergeConflict(obj, next)
    ELSE IF obj.Kind = "scalar" THEN MergeScalar(obj, next)
    ELSE IF obj.Kind = "array" THEN MergeArray(obj, next)
    ELSE MergeMapOf(obj, next,
            [k \in (DOMAIN obj.Map) \cup (DOMAIN next.Map) |->
                IF k \notin DOMAIN next.Map THEN MergeOk(obj.Map[k])
                ELSE IF k \notin DOMAIN obj.Map THEN MergeOk(next.Map[k])
                ELSE Merge(obj.Map[k], next.Map[k])])

\* ---- the record sorter ----------------------------------------------------

RecordNames == {"9.json", "10.json"}

\* Position of a name in byte-wise order and in natural (numeric-aware) order.
LexicalRank(name) == CASE name = "10.json" -> 1 [] name = "9.json" -> 2 [] OTHER -> 3
NaturalRank(name) == CASE name = "9.json" -> 1 [] name = "10.json" -> 2 [] OTHER -> 3

Sorters == {"lexical", "natural"}

\* the less-than predicate the configured sorter supplies
SorterLess(a, b) ==
    IF sorter = "lexical" THEN LexicalRank(a) < LexicalRank(b)
    ELSE NaturalRank(a) < NaturalRank(b)

\* sort.SliceStable: insert r before the first element that sorts after it.
RECURSIVE InsertStable(_, _)
InsertStable(r, sorted) ==
    IF sorted = <<>> THEN <<r>>
    ELSE IF SorterLess(r.name, sorted[Len(sorted)].name)
         THEN InsertStable(r, SubSeq(sorted, 1, Len(sorted) - 1)) \o <<sorted[Len(sorted)]>>
         ELSE sorted \o <<r>>

RECURSIVE SortStable(_)
SortStable(recs) ==
    IF recs = <<>> THEN <<>>
    ELSE InsertStable(recs[Len(recs)], SortStable(SubSeq(recs, 1, Len(recs) - 1)))


\* ---- filesystems (fs.FS as the filegroups see it) -------------------------

\* A filesystem maps a path to a node.  open is what Open returns while the
\* group is enumerated, later what Open returns when the file is read.
File(data) == [type |-> "file", open |-> "nil", later |-> "nil", data |-> data, children |-> <<>>]
Dir(children) == [type |-> "dir", open |-> "nil", later |-> "nil", data |-> "", children |-> children]

NoFiles == [p \in {} |-> 0]

LocalFS ==
    [p \in {"1.json", "example.json", "notes.txt", "dir", "dir/2.json"} |->
        CASE p = "1.json" -> File("{a:1}")
          [] p = "example.json" -> File("{a:2,b:2}")
          [] p = "notes.txt" -> File("{a:[9]}")
          [] p = "dir" -> Dir(<<"dir/2.json">>)
          [] OTHER -> File("{a:{x:1}}")]

HomeFS == [p \in {"example.json"} |-> File("{a:1}")]

\* a filesystem whose 1.json cannot be opened
LockedFS == [p \in {"1.json"} |-> [File("{a:1}") EXCEPT !.open = "ErrPermission", !.later = "ErrPermission"]]

\* a filesystem whose dir/2.json is removed after the directory was walked,
\* and whose 1.json loses its read permission after it was enumerated
RacyFS ==
    [p \in {"1.json", "dir", "dir/2.json"} |->
        CASE p = "1.json" -> [File("{a:1}") EXCEPT !.later = "ErrPermission"]
          [] p = "dir" -> Dir(<<"dir/2.json">>)
          [] OTHER -> [File("{a:2,b:2}") EXCEPT !.later = "ErrNotExist"]]

\* a filesystem holding a file the decoder rejects
BrokenFS == [p \in {"1.json"} |-> File("{")]

\* the filesystems by the name a filegroup holds
FS(name) ==
    CASE name = "local" -> LocalFS
      [] name = "home" -> HomeFS
      [] name = "locked" -> LockedFS
      [] name = "racy" -> RacyFS
      [] name = "broken" -> BrokenFS
      [] OTHER -> NoFiles

\* path.Clean on the paths the model uses
Clean(p) ==
    CASE p = "./1.json" -> "1.json"
      [] p = "./dir" -> "dir"
      [] OTHER -> p

\* fs.ValidPath: rooted paths are invalid
ValidPath(p) == p # "/etc/example.json"

\* stat.Name(): the base name of a path
Base(p) == IF p = "dir/2.json" THEN "2.json" ELSE p

\* position of a path in sort.Strings order
PathRank(p) ==
    CASE p = "1.json" -> 1
      [] p = "dir/2.json" -> 2
      [] p = "example.json" -> 3
      [] p = "gone.json" -> 4
      [] p = "notes.txt" -> 5
      [] OTHER -> 6

RECURSIVE InsertPath(_, _)
InsertPath(p, sorted) ==
    IF sorted = <<>> THEN <<p>>
    ELSE IF PathRank(p) < PathRank(sorted[Len(sorted)])
         THEN InsertPath(p, SubSeq(sorted, 1, Len(sorted) - 1)) \o <<sorted[Len(sorted)]>>
         ELSE sorted \o <<p>>

\* sort.Strings
RECURSIVE SortStrings(_)
SortStrings(files) ==
    IF files = <<>> THEN <<>>
    ELSE InsertPath(files[Len(files)], SortStrings(SubSeq(files, 1, Len(files) - 1)))

\* fs.Glob: [err, matches]
Glob(fsys, pattern) ==
    IF pattern = "[" THEN [err |-> "ErrBadPattern", matches |-> <<>>]
    ELSE IF pattern = "*.json"
         THEN [err |-> "nil",
               matches |-> SortStrings(
                   IF "1.json" \in DOMAIN fsys
                   THEN IF "example.json" \in DOMAIN fsys THEN <<"1.json", "example.json">>
                        ELSE <<"1.json">>
                   ELSE IF "example.json" \in DOMAIN fsys THEN <<"example.json">> ELSE <<>>)]
    ELSE IF pattern \in DOMAIN fsys THEN [err |-> "nil", matches |-> <<pattern>>]
    ELSE [err |-> "nil", matches |-> <<>>]


\* ---- record collection (filegroup) ----------------------------------------

\* record{name, buf, tree}: a file record carries its decoded tree, a buffer
\* record the buffer that toTree decodes at compile time.
FileRecord(name, t) == [name |-> name, buf |-> "nil", tree |-> t]
BufferRecord(name, data) == [name |-> name, buf |-> data, tree |-> EmptyObject]

\* fs.FS.Open while enumerating, and when the file is read
OpenErr(fsys, p) == IF p \notin DOMAIN fsys THEN "ErrNotExist" ELSE fsys[p].open
OpenLaterErr(fsys, p) == IF p \notin DOMAIN fsys THEN "ErrNotExist" ELSE fsys[p].later

normalizeFileError(err) ==
    IF err = "ErrPermission" THEN "nil"
    ELSE IF err = "ErrNotExist" THEN "nil"
    ELSE err

normalizeDirError(err) ==
    IF err = "ErrPermission" THEN "nil" ELSE err

\* filegroup.isDir: [dir, err]
isDir(g, p) ==
    IF ~ValidPath(p) THEN [dir |-> FALSE, err |-> "ErrInvalid"]
    ELSE IF OpenErr(FS(g.fs), p) # "nil" THEN [dir |-> FALSE, err |-> OpenErr(FS(g.fs), p)]
    ELSE [dir |-> FS(g.fs)[p].type = "dir", err |-> "nil"]

\* filecollector.isReadable
isReadable(g, file) == OpenErr(FS(g.fs), file)

\* filecollector.nonrecurse on one entry below fc.path: [files, err]
nonrecurse(g, files, file) ==
    IF file \in DOMAIN FS(g.fs) /\ FS(g.fs)[file].type = "dir"
    THEN [files |-> files, err |-> "SkipDir"]
    ELSE [files |-> IF isReadable(g, file) = "nil" THEN Append(files, file) ELSE files,
          err |-> normalizeFileError(isReadable(g, file))]

\* filecollector.recurse on one entry: [files, err]
recurse(g, files, file) ==
    IF file \in DOMAIN FS(g.fs) /\ FS(g.fs)[file].type = "dir"
    THEN [files |-> files, err |-> "nil"]
    ELSE [files |-> IF isReadable(g, file) = "nil" THEN Append(files, file) ELSE files,
          err |-> normalizeFileError(isReadable(g, file))]

\* one entry handed to the walker the group's recurse flag selects
walkEntry(g, files, file) ==
    IF g.recurse THEN recurse(g, files, file) ELSE nonrecurse(g, files, file)

\* fs.WalkDir over the entries of a directory, stopping at the first error
RECURSIVE WalkDir(_, _, _, _)

\* WalkDir after the walker returned r for entry i
WalkDirNext(g, entries, i, r) ==
    IF r.err \notin {"nil", "SkipDir"} THEN r
    ELSE WalkDir(g, entries, i + 1, r.files)

WalkDir(g, entries, i, files) ==
    IF i > Len(entries) THEN [files |-> files, err |-> "nil"]
    ELSE WalkDirNext(g, entries, i, walkEntry(g, files, entries[i]))

\* enumeratePath passing over a path that does not exist
enumeratePathOfSkipMissing(g, p, d) ==
    IF d.err # "nil" THEN [files |-> <<>>, err |-> normalizeFileError(d.err)]
    ELSE IF ~d.dir THEN [files |-> <<p>>, err |-> "nil"]
    ELSE IF g.exactFile THEN [files |-> <<>>, err |-> "ErrInvalid"]
    ELSE WalkDir(g, FS(g.fs)[p].children, 1, <<>>)

\* enumeratePath after isDir returned d
enumeratePathOf(g, p, d) ==
    IF d.err # "nil" THEN [files |-> <<>>, err |-> normalizeDirError(d.err)]
    ELSE IF ~d.dir THEN [files |-> <<p>>, err |-> "nil"]
    ELSE IF g.exactFile THEN [files |-> <<>>, err |-> "ErrInvalid"]
    ELSE WalkDir(g, FS(g.fs)[p].children, 1, <<>>)

\* filegroup.enumeratePath: [files, err]
enumeratePath(g, p) == enumeratePathOf(g, p, isDir(g, p))

\* the inner loop of enumerate over the matches of one glob
RECURSIVE enumeratePaths(_, _, _, _)

\* the inner loop after enumeratePath returned r for paths[i]
enumeratePathsNext(g, paths, i, files, r) ==
    IF r.err # "nil" THEN [files |-> <<>>, err |-> r.err]
    ELSE enumeratePaths(g, paths, i + 1, files \o r.files)

enumeratePaths(g, paths, i, files) ==
    IF i > Len(paths) THEN [files |-> files, err |-> "nil"]
    ELSE enumeratePathsNext(g, paths, i, files, enumeratePath(g, paths[i]))

\* the outer loop of enumerate over g.paths
RECURSIVE enumerateGlobs(_, _, _)

\* the outer loop after the inner loop returned r for g.paths[i]
enumerateGlobsNext(g, i, r) ==
    IF r.err # "nil" THEN r
    ELSE enumerateGlobs(g, i + 1, r.files)

\* the outer loop after fs.Glob returned tmp for the cleaned g.paths[i]
enumerateGlob(g, i, files, glob, tmp) ==
    IF ~g.exactFile /\ tmp.err # "nil" THEN [files |-> <<>>, err |-> tmp.err]
    ELSE enumerateGlobsNext(g, i,
            enumeratePaths(g,
                IF ~g.exactFile /\ Len(tmp.matches) > 0 THEN tmp.matches ELSE <<glob>>,
                1, files))

enumerateGlobs(g, i, files) ==
    IF i > Len(g.paths) THEN [files |-> files, err |-> "nil"]
    ELSE enumerateGlob(g, i, files, Clean(g.paths[i]), Glob(FS(g.fs), Clean(g.paths[i])))

\* enumerate after both loops returned r: the trailing sort.Strings
enumerateSorted(r) ==
    IF r.err # "nil" THEN r
    ELSE [files |-> SortStrings(r.files), err |-> "nil"]

\* filegroup.enumerate: [files, err]
enumerate(g) == enumerateSorted(enumerateGlobs(g, 1, <<>>))

\* strings.TrimPrefix(g.as, ".")
TrimDot(as) == IF as = ".json" THEN "json" ELSE as

\* toRecord after the decoder returned d
toRecordDecoded(file, d) ==
    IF d.err # "nil" THEN [list |-> <<>>, err |-> d.err]
    ELSE [list |-> <<FileRecord(Base(file), d.tree)>>, err |-> "nil"]

\* toRecord after the file was opened and ext chosen
\* (decoders.find is not part of the sources at hand: it is taken to return
\* ErrCodecNotFound with no decoder for an extension nobody registered)
toRecordAs(g, file, openErr, ext) ==
    IF openErr # "nil" THEN [list |-> <<>>, err |-> openErr]
    ELSE IF ext \notin DecoderExts
         THEN IF g.exactFile THEN [list |-> <<>>, err |-> "ErrCodecNotFound"]
              ELSE [list |-> <<>>, err |-> "nil"]
    ELSE toRecordDecoded(file, Decode(Base(file), FS(g.fs)[file].data))

\* toRecord choosing the decoder by the file's extension alone
toRecordByExtension(g, file) ==
    toRecordAs(g, file, OpenLaterErr(FS(g.fs), file), Ext(Base(file)))

\* filegroup.toRecord: [list, err]
toRecord(g, file) ==
    toRecordAs(g, file, OpenLaterErr(FS(g.fs), file),
               IF g.as # "" THEN TrimDot(g.as) ELSE Ext(Base(file)))

\* the loop of toRecords over the enumerated files
RECURSIVE toRecordsLoop(_, _, _, _)

\* the loop after toRecord returned r for files[i]
toRecordsNext(g, files, i, list, r) ==
    IF r.err # "nil" THEN [list |-> <<>>, err |-> r.err]
    ELSE toRecordsLoop(g, files, i + 1, list \o r.list)

toRecordsLoop(g, files, i, list) ==
    IF i > Len(files) THEN [list |-> list, err |-> "nil"]
    ELSE toRecordsNext(g, files, i, list, toRecord(g, files[i]))

\* toRecords after enumerate returned e
toRecordsOf(g, e) ==
    IF e.err # "nil" THEN [list |-> <<>>, err |-> e.err]
    ELSE toRecordsLoop(g, e.files, 1, <<>>)

\* filegroup.toRecords: [list, err]
toRecords(g) == toRecordsOf(g, enumerate(g))

\* the loop of filegroupsToRecords; read lists the groups handed to toRecords
RECURSIVE filegroupsLoop(_, _, _, _)

\* the loop body with the halt test missing its len(tmp) > 0 half
filegroupsNextHaltEmpty(fgs, i, rv, read, tmp) ==
    IF tmp.err # "nil" /\ fgs[i].exactFile /\ tmp.err = "ErrNotExist"
    THEN [rv |-> <<>>, err |-> "ErrFileMissing", read |-> read]
    ELSE IF tmp.err # "nil" /\ tmp.err # "ErrNotExist"
    THEN [rv |-> <<>>, err |-> tmp.err, read |-> read]
    ELSE IF fgs[i].halt
    THEN [rv |-> rv \o tmp.list, err |-> "nil", read |-> read]
    ELSE filegroupsLoop(fgs, i + 1, rv \o tmp.list, read)

\* the loop body without the exact-file test: a missing file is passed over
filegroupsNextNoFileMissing(fgs, i, rv, read, tmp) ==
    IF tmp.err # "nil" /\ tmp.err # "ErrNotExist"
    THEN [rv |-> <<>>, err |-> tmp.err, read |-> read]
    ELSE IF Len(tmp.list) > 0 /\ fgs[i].halt
    THEN [rv |-> rv \o tmp.list, err |-> "nil", read |-> read]
    ELSE filegroupsLoop(fgs, i + 1, rv \o tmp.list, read)

\* the loop body after grp.toRecords returned tmp for group i
filegroupsNext(fgs, i, rv, read, tmp) ==
    IF tmp.err # "nil" /\ fgs[i].exactFile /\ tmp.err = "ErrNotExist"
    THEN [rv |-> <<>>, err |-> "ErrFileMissing", read |-> read]
    ELSE IF tmp.err # "nil" /\ tmp.err # "ErrNotExist"
    THEN [rv |-> <<>>, err |-> tmp.err, read |-> read]
    ELSE IF Len(tmp.list) > 0 /\ fgs[i].halt
    THEN [rv |-> rv \o tmp.list, err |-> "nil", read |-> read]
    ELSE filegroupsLoop(fgs, i + 1, rv \o tmp.list, read)

filegroupsLoop(fgs, i, rv, read) ==
    IF i > Len(fgs) THEN [rv |-> rv, err |-> "nil", read |-> read]
    ELSE filegroupsNext(fgs, i, rv, Append(read, i), toRecords(fgs[i]))

\* filegroupsToRecords: [rv, err, read]
filegroupsToRecords(fgs) == filegroupsLoop(fgs, 1, <<>>, <<>>)

\* ---- variable expansion ---------------------------------------------------

\* The placeholders of the model's strings: [start, finish, name].
Placeholders == {"${A}", "${B}", "${S}", "${P}", "${U}", "<D>", "<Q>"}

Placeholder(tok) ==
    CASE tok = "${A}" -> [start |-> "${", finish |-> "}", name |-> "A"]
      [] tok = "${B}" -> [start |-> "${", finish |-> "}", name |-> "B"]
      [] tok = "${S}" -> [start |-> "${", finish |-> "}", name |-> "S"]
      [] tok = "${P}" -> [start |-> "${", finish |-> "}", name |-> "P"]
      [] tok = "${U}" -> [start |-> "${", finish |-> "}", name |-> "U"]
      [] tok = "<D>" -> [start |-> "<", finish |-> ">", name |-> "D"]
      [] OTHER -> [start |-> "<", finish |-> ">", name |-> "Q"]

\* The expanders: each maps the names it knows to their replacement.
\* "env" resolves A to a placeholder of the other delimiters, S to a text
\* that holds ${S} again, and does not know U.
EnvExpander ==
    [n \in {"A", "B", "S", "P"} |->
        CASE n = "A" -> <<"<D>">>
          [] n = "B" -> <<"1">>
          [] n = "S" -> <<"s", "${S}">>
          [] OTHER -> <<"<Q>">>]

\* "alt" resolves D to a placeholder of the ${ } delimiters and Q back to ${P}.
AltExpander ==
    [n \in {"D", "Q"} |->
        CASE n = "D" -> <<"${B}">>
          [] OTHER -> <<"${P}">>]

Expander(name) == IF name = "env" THEN EnvExpander ELSE AltExpander

\* exp.expander.Expand(s): [got, found]
Expand(exp, s) ==
    IF s \in DOMAIN Expander(exp.expander)
    THEN [got |-> Expander(exp.expander)[s], found |-> TRUE]
    ELSE [got |-> <<>>, found |-> FALSE]

\* does the directive's delimiter pair enclose this token, with a name the
\* expander finds
Expands(exp, tok) ==
    /\ tok \in Placeholders
    /\ Placeholder(tok).start = exp.start
    /\ Placeholder(tok).finish = exp.finish
    /\ Expand(exp, Placeholder(tok).name).found

\* one scan of a string: every placeholder the expander finds is replaced
RECURSIVE ScanValue(_, _)
ScanValue(val, exp) ==
    IF val = <<>> THEN <<>>
    ELSE (IF Expands(exp, Head(val)) THEN Expand(exp, Placeholder(Head(val)).name).got
          ELSE <<Head(val)>>) \o ScanValue(Tail(val), exp)

\* expansion of one string: scan again while a scan replaced something, at
\* most exp.maximum times; [val, err, found]
RECURSIVE ExpandValue(_, _, _)
ExpandValue(val, exp, n) ==
    IF \A i \in DOMAIN val : ~Expands(exp, val[i])
    THEN [val |-> val, err |-> "nil", found |-> n > 0]
    ELSE IF n >= exp.maximum
         THEN [val |-> val, err |-> "ErrExpansionNotConverged", found |-> TRUE]
         ELSE ExpandValue(ScanValue(val, exp), exp, n + 1)

\* meta.Object.ToExpanded: [obj, err, found]; found tells whether the
\* expander callback reported a successful lookup
RECURSIVE ToExpanded(_, _)

\* ToExpanded of a scalar after its string was expanded to r
ToExpandedScalar(obj, exp, r) ==
    [obj |-> IF r.found /\ r.err = "nil"
             THEN [obj EXCEPT !.Value = r.val, !.Origins = obj.Origins \o <<exp.origin>>]
             ELSE obj,
     err |-> r.err, found |-> r.found]

\* ToExpanded of an array or a map after its children were expanded
ToExpandedChildren(obj, arr, map) ==
    [obj |-> [obj EXCEPT !.Array = [i \in DOMAIN arr |-> arr[i].obj],
                         !.Map = [k \in DOMAIN map |-> map[k].obj]],
     err |-> IF \/ \E i \in DOMAIN arr : arr[i].err # "nil"
                \/ \E k \in DOMAIN map : map[k].err # "nil"
             THEN "ErrExpansionNotConverged" ELSE "nil",
     found |-> \/ \E i \in DOMAIN arr : arr[i].found
               \/ \E k \in DOMAIN map : map[k].found]

ToExpanded(obj, exp) ==
    IF obj.Kind = "scalar"
    THEN ToExpandedScalar(obj, exp, ExpandValue(obj.Value, exp, 0))
    ELSE ToExpandedChildren(obj,
            [i \in DOMAIN obj.Array |-> ToExpanded(obj.Array[i], exp)],
            [k \in DOMAIN obj.Map |-> ToExpanded(obj.Map[k], exp)])

\* expand.apply turns a maximum below 1 into this default
DefaultMaximum == 10000

\* the inner loop of expandTree: the directives from j on, applied in order,
\* each to the tree the one before it produced; [obj, changed, err, log]
RECURSIVE expandDirectives(_, _, _, _, _, _)

\* the inner loop swallowing the error of a directive: the tree is kept and
\* the pass reports that nothing changed
expandDirectiveDoneSwallow(exps, j, changed, pass, log, r) ==
    IF r.err # "nil"
    THEN [obj |-> r.obj, changed |-> FALSE, err |-> "nil", log |-> log]
    ELSE expandDirectives(r.obj, exps, j + 1, changed \/ r.found, pass, log)

\* the inner loop after in.ToExpanded returned r for directive j
expandDirectiveDone(exps, j, changed, pass, log, r) ==
    IF r.err # "nil"
    THEN [obj |-> EmptyObject, changed |-> FALSE, err |-> r.err, log |-> log]
    ELSE expandDirectives(r.obj, exps, j + 1, changed \/ r.found, pass, log)

\* the log entry of one ToExpanded call
expandEntry(pass, j, in, r) ==
    [pass |-> pass, directive |-> j, input |-> in,
     output |-> r.obj, found |-> r.found, err |-> r.err]

\* directive j applied to in, and logged
expandDirective(in, exps, j, changed, pass, log, r) ==
    expandDirectiveDone(exps, j, changed, pass, Append(log, expandEntry(pass, j, in, r)), r)

expandDirectives(in, exps, j, changed, pass, log) ==
    IF j > Len(exps) THEN [obj |-> in, changed |-> changed, err |-> "nil", log |-> log]
    ELSE expandDirective(in, exps, j, changed, pass, log, ToExpanded(in, exps[j]))

\* the outer loop of expandTree: pass i runs while changed and i < max
RECURSIVE expandPasses(_, _, _, _, _, _)

\* the outer loop after pass i returned r
expandPassDone(max, exps, i, r) ==
    IF r.err # "nil" THEN r
    ELSE expandPasses(r.obj, max, exps, i + 1, r.changed, r.log)

\* the outer loop without its changed test: max passes whatever they find
expandPassesAlways(in, max, exps, i, changed, log) ==
    IF ~(i < max)
    THEN [obj |-> in, changed |-> changed, err |-> "nil", log |-> log]
    ELSE expandPassDone(max, exps, i, expandDirectives(in, exps, 1, FALSE, i, log))

expandPasses(in, max, exps, i, changed, log) ==
    IF ~(changed /\ i < max)
    THEN [obj |-> in, changed |-> changed, err |-> "nil", log |-> log]
    ELSE expandPassDone(max, exps, i, expandDirectives(in, exps, 1, FALSE, i, log))

\* expandTree with changed starting as false
expandTreeStartsUnchanged(in, max, exps) == expandPasses(in, max, exps, 0, FALSE, <<>>)

\* expandTree: [obj, changed, err, log]; log lists the ToExpanded calls made
expandTree(in, max, exps) == expandPasses(in, max, exps, 0, TRUE, <<>>)

\* ---- compile --------------------------------------------------------------

\* buffer.toTree: [err, tree]
toTree(rec) ==
    IF Ext(rec.name) \notin DecoderExts
    THEN [err |-> "ErrCodecNotFound", tree |-> EmptyObject]
    ELSE Decode(rec.name, rec.buf)

\* the tree a record contributes: [err, tree]
RecordTree(rec) ==
    IF rec.buf = "nil" THEN [err |-> "nil", tree |-> rec.tree] ELSE toTree(rec)

\* the merge fold over the ordered records: [err, obj]
RECURSIVE mergeRecords(_, _, _)

\* the fold after record i was merged with result m
mergeRecordsNext(recs, i, m) ==
    IF m.err # "nil" THEN m
    ELSE mergeRecords(recs, i + 1, m.obj)

\* the fold after record i produced the tree t
mergeRecord(recs, i, acc, t) ==
    IF t.err # "nil" THEN [err |-> t.err, obj |-> EmptyObject]
    ELSE mergeRecordsNext(recs, i, Merge(acc, t.tree))

mergeRecords(recs, i, acc) ==
    IF i > Len(recs) THEN [err |-> "nil", obj |-> acc]
    ELSE mergeRecord(recs, i, acc, RecordTree(recs[i]))

Names(recs) == [i \in DOMAIN recs |-> recs[i].name]

\* the order in which Compile merges: the defaults as declared, then the
\* value records (file records and buffers) as the sorter orders them
MergeOrder(dflts, vals) == dflts \o SortStable(vals)

\* a compileInternal that failed with err
compileFailed(err) == [merged |-> EmptyObject, records |-> <<>>, err |-> err]

\* compileInternal after expandTree returned e
compileExpanded(recs, e) ==
    IF e.err # "nil" THEN compileFailed(e.err)
    ELSE IF e.changed THEN compileFailed("ErrExpansionNotConverged")
    ELSE [merged |-> e.obj, records |-> Names(recs), err |-> "nil"]

\* compileInternal after the records were merged into m
compileMerged(recs, m) ==
    IF m.err # "nil" THEN compileFailed(m.err)
    ELSE compileExpanded(recs, expandTree(m.obj, expMax, expansions))

\* compileInternal after the records were put in merge order
compileSorted(recs) == compileMerged(recs, mergeRecords(recs, 1, EmptyObject))

\* compileInternal after filegroupsToRecords returned fg
compileCollected(onlyDefaults, fg) ==
    IF fg.err # "nil" THEN compileFailed(fg.err)
    ELSE compileSorted(MergeOrder(defaults, IF onlyDefaults THEN <<>> ELSE fg.rv \o values))

\* Config.compileInternal: [merged, records, err]
compileInternal(onlyDefaults) ==
    compileCollected(onlyDefaults,
        IF onlyDefaults THEN [rv |-> <<>>, err |-> "nil", read |-> <<>>]
        ELSE filegroupsToRecords(filegroups))

\* ---- tree projections -----------------------------------------------------

\* meta.Object.ToRaw: the tree without its origins
RECURSIVE ToRaw(_)
ToRaw(obj) ==
    [obj EXCEPT !.Origins = <<>>,
                !.Array = [i \in DOMAIN obj.Array |-> ToRaw(obj.Array[i])],
                !.Map = [k \in DOMAIN obj.Map |-> ToRaw(obj.Map[k])]]

\* the keys whose values are secrets
SecretKeys == {"b"}

\* meta.Object.ToRedacted: a copy whose secret leaves hold the marker
RECURSIVE ToRedacted(_)
ToRedacted(obj) ==
    [obj EXCEPT !.Array = [i \in DOMAIN obj.Array |-> ToRedacted(obj.Array[i])],
                !.Map = [k \in DOMAIN obj.Map |->
                            IF k \in SecretKeys /\ obj.Map[k].Kind = "scalar"
                            THEN [obj.Map[k] EXCEPT !.Value = <<"REDACTED">>]
                            ELSE ToRedacted(obj.Map[k])]]

\* strings.Split(key, keyDelimiter) for the keys the model fetches
KeyPath(key) ==
    CASE key = "a" -> <<"a">>
      [] key = "b" -> <<"b">>
      [] key = "a.x" -> <<"a", "x">>
      [] key = "a.0" -> <<"a", "0">>
      [] OTHER -> <<key>>

\* strconv.Atoi of a path segment: -1 when it is no number
Index(seg) == CASE seg = "0" -> 0 [] seg = "1" -> 1 [] seg = "2" -> 2 [] OTHER -> -1

\* meta.Object.Fetch: [obj, err]
RECURSIVE Fetch(_, _)
Fetch(obj, path) ==
    IF path = <<>> THEN [obj |-> obj, err |-> "nil"]
    ELSE IF obj.Kind = "map"
         THEN IF Index(Head(path)) >= 0 /\ Head(path) \notin DOMAIN obj.Map
              THEN [obj |-> EmptyObject, err |-> "ErrTypeMismatch"]
              ELSE IF Head(path) \notin DOMAIN obj.Map
              THEN [obj |-> EmptyObject, err |-> "ErrNotFound"]
              ELSE Fetch(obj.Map[Head(path)], Tail(path))
    ELSE IF obj.Kind = "array"
         THEN IF Index(Head(path)) < 0
              THEN [obj |-> EmptyObject, err |-> "ErrTypeMismatch"]
              ELSE IF Index(Head(path)) >= Len(obj.Array)
              THEN [obj |-> EmptyObject, err |-> "ErrNotFound"]
              ELSE Fetch(obj.Array[Index(Head(path)) + 1], Tail(path))
    ELSE [obj |-> EmptyObject, err |-> "ErrNotFound"]


\* ---- options --------------------------------------------------------------

\* the option lists handed to AddBuffer: each entry is the isDefault an
\* AsDefault option sets
BufferOptionLists == {<<>>, <<TRUE>>, <<FALSE>>, <<FALSE, TRUE>>}

\* the history entry of one AddBuffer option
Declared(recordName, in, asDefault) ==
    [name |-> recordName, buf |-> in, asDefault |-> asDefault]

\* buffer.apply taking no notice of AsDefault: every buffer becomes a value
AddBufferAsValue(recordName, in, opts) ==
    /\ \A t \in Threads : pc[t] = "idle"
    /\ Len(defaults) + Len(values) < MaxRecords
    /\ recordName # ""
    /\ values' = Append(values, BufferRecord(recordName, in))
    /\ UNCHANGED defaults
    /\ declared' = Append(declared, Declared(recordName, in, \E i \in DOMAIN opts : opts[i]))
    /\ UNCHANGED <<sorter, filegroups, expansions, expMax, marshalOptions, unmarshalOptions>>
    /\ UNCHANGED <<cfgVars, mutex, pc, op, ret, fgOut, expOut, call>>

\* AddBuffer(recordName, in, opts) applied to the options: buffer.apply.
\* opts lists, for each BufferOption given, whether it is AsDefault.  Options
\* are applied while no call on the Config is in progress.
AddBuffer(recordName, in, opts) ==
    /\ \A t \in Threads : pc[t] = "idle"
    /\ Len(defaults) + Len(values) < MaxRecords
    /\ recordName # ""
    /\ IF \E i \in DOMAIN opts : opts[i]
       THEN /\ defaults' = Append(defaults, BufferRecord(recordName, in))
            /\ UNCHANGED values
       ELSE /\ values' = Append(values, BufferRecord(recordName, in))
            /\ UNCHANGED defaults
    /\ declared' = Append(declared, Declared(recordName, in, \E i \in DOMAIN opts : opts[i]))
    /\ UNCHANGED <<sorter, filegroups, expansions, expMax, marshalOptions, unmarshalOptions>>
    /\ UNCHANGED <<cfgVars, mutex, pc, op, ret, fgOut, expOut, call>>

\* expand.apply keeping a directive whose expander is nil
applyKeepNil(exp, exps) ==
    [expansions |-> Append(exps, [exp EXCEPT !.maximum = IF exp.maximum < 1 THEN DefaultMaximum
                                                         ELSE exp.maximum]),
     err |-> "nil"]

\* expand.apply on the expansions of the options: [expansions, err]
apply(exp, exps) ==
    [expansions |->
        IF exp.expander # "nil"
        THEN Append(exps, [exp EXCEPT !.maximum = IF exp.maximum < 1 THEN DefaultMaximum
                                                  ELSE exp.maximum])
        ELSE exps,
     err |-> "nil"]

\* Expand(expander, WithDelimiters, WithOrigin, WithMaximum) applied to the
\* options
ExpandApply(exp) ==
    /\ \A t \in Threads : pc[t] = "idle"
    /\ Len(expansions) < MaxExpansions
    /\ expansions' = apply(exp, expansions).expansions
    /\ UNCHANGED <<defaults, values, sorter, filegroups, expMax, marshalOptions, unmarshalOptions, declared>>
    /\ UNCHANGED <<cfgVars, mutex, pc, op, ret, fgOut, expOut>>

\* a filegroup option (AddFile, AddFiles, AddTree, ...Halt) applied to the options
AddFilegroup(g) ==
    /\ Len(filegroups) < MaxFilegroups
    /\ filegroups' = Append(filegroups, g)
    /\ UNCHANGED <<defaults, values, sorter, expansions, expMax, marshalOptions, unmarshalOptions, declared>>
    /\ UNCHANGED <<cfgVars, mutex, pc, op, ret, fgOut, expOut, call>>

\* ---- Config.mutex ---------------------------------------------------------

\* sync.Mutex.Lock: returns once the mutex is free, and then holds it
MutexLock(t) ==
    /\ mutex = 0
    /\ mutex' = t

\* sync.Mutex.Unlock
MutexUnlock(t) == mutex' = 0

NoOutput == <<>>

\* ---- Config.Compile -------------------------------------------------------

\* Compile takes the mutex for the whole call
CompileLock(t) ==
    /\ pc[t] = "idle"
    /\ compiledAt < MaxCompiledAt
    /\ MutexLock(t)
    /\ pc' = [pc EXCEPT ![t] = "locked"]
    /\ op' = [op EXCEPT ![t] = "Compile"]
    /\ UNCHANGED <<optVars, cfgVars, ret, fgOut, expOut, call>>

\* a Compile that stores whatever compileInternal returned, failed or not
CompileStoreAlways(t, r) ==
    /\ tree' = r.merged
    /\ compiledAt' = compiledAt + 1
    /\ records' = r.records
    /\ ret' = [ret EXCEPT ![t] = [op |-> "Compile", err |-> r.err, out |-> NoOutput,
                                  exit |-> IF r.err = "nil" THEN "compiled" ELSE "compileError"]]

\* what Compile stores when compileInternal returned r: the tree and the
\* compile time are replaced only when it succeeded
CompileStore(t, r) ==
    /\ IF r.err = "nil"
       THEN /\ tree' = r.merged
            /\ compiledAt' = compiledAt + 1
            /\ records' = r.records
       ELSE UNCHANGED cfgVars
    /\ ret' = [ret EXCEPT ![t] = [op |-> "Compile", err |-> r.err, out |-> NoOutput,
                                  exit |-> IF r.err = "nil" THEN "compiled" ELSE "compileError"]]

\* the body of Compile
CompileBody(t) ==
    /\ pc[t] = "locked"
    /\ op[t] = "Compile"
    /\ CompileStore(t, compileInternal(FALSE))
    /\ pc' = [pc EXCEPT ![t] = "ret"]
    /\ UNCHANGED <<optVars, mutex, op, fgOut, expOut, call>>

\* a return that unlocks on the success path only, as explicit Unlock calls
\* in place of the deferred one would when an error path misses its own
ReturnLeak(t) ==
    /\ pc[t] = "ret"
    /\ IF ret[t].err = "nil" THEN MutexUnlock(t) ELSE UNCHANGED mutex
    /\ pc' = [pc EXCEPT ![t] = "idle"]
    /\ UNCHANGED <<optVars, cfgVars, op, ret, fgOut, expOut, call>>

\* the deferred c.mutex.Unlock() that runs when the call returns
Return(t) ==
    /\ pc[t] = "ret"
    /\ MutexUnlock(t)
    /\ pc' = [pc EXCEPT ![t] = "idle"]
    /\ UNCHANGED <<optVars, cfgVars, op, ret, fgOut, expOut, call>>


\* ---- Config.Marshal -------------------------------------------------------

\* the extensions of the registered encoders, in the registry's order
EncoderExts == <<"json">>

Opt(kind, val) == [kind |-> kind, val |-> val, ext |-> ""]
FormatAs(extension) == [kind |-> "FormatAs", val |-> TRUE, ext |-> extension]

\* one MarshalOption applied to the marshalOptions: marshalApply
marshalApply(cfg, opt) ==
    CASE opt.kind = "RedactSecrets" -> [cfg EXCEPT !.redactSecrets = opt.val]
      [] opt.kind = "IncludeOrigins" -> [cfg EXCEPT !.withOrigins = opt.val]
      [] opt.kind = "FormatAs" -> [cfg EXCEPT !.format = opt.ext]
      [] opt.kind = "IncludeDocumentation" -> [cfg EXCEPT !.withDocumentation = opt.val]
      [] opt.kind = "OnlyDefaults" -> [cfg EXCEPT !.onlyDefaults = opt.val]
      [] OTHER -> [cfg EXCEPT !.err = "ErrOption"]

RECURSIVE marshalApplyAll(_, _, _)
marshalApplyAll(cfg, full, i) ==
    IF i > Len(full) \/ cfg.err # "nil" THEN cfg
    ELSE marshalApplyAll(marshalApply(cfg, full[i]), full, i + 1)

\* Config.getMarshalOptions: the marshalOptions, err set when an option failed
getMarshalOptions(opts) ==
    marshalApplyAll([redactSecrets |-> FALSE, onlyDefaults |-> FALSE,
                     withDocumentation |-> FALSE, withOrigins |-> FALSE,
                     format |-> IF Len(EncoderExts) > 0 THEN EncoderExts[1] ELSE "",
                     err |-> "nil"],
                    marshalOptions \o opts, 1)

\* Config.getMarshalTree: [tree, isNil, err]
getMarshalTree(cfg) ==
    LET results == compileInternal(TRUE)
        base == IF cfg.onlyDefaults THEN results.merged ELSE tree
        t == IF cfg.redactSecrets THEN ToRedacted(base) ELSE base
    IN IF cfg.onlyDefaults /\ results.err # "nil"
       THEN [tree |-> EmptyObject, isNil |-> TRUE, err |-> results.err]
       ELSE [tree |-> t, isNil |-> IsEmpty(t), err |-> "nil"]

\* Config.Marshal, had it looked up the encoder of cfg.format before the
\* documented branch
MarshalFindFirst(opts, unifiedFails, encodeFails) ==
    LET cfg == getMarshalOptions(opts)
        mt == getMarshalTree(cfg)
        result(err, out, exit) == [err |-> err, out |-> out, exit |-> exit]
    IN IF compiledAt = 0 THEN result("ErrNotCompiled", NoOutput, "notCompiled")
       ELSE IF cfg.err # "nil" THEN result(cfg.err, NoOutput, "optionError")
       ELSE IF mt.err # "nil" THEN result(mt.err, NoOutput, "treeError")
       ELSE IF mt.isNil THEN result("nil", NoOutput, "emptyTree")
       ELSE IF \A i \in DOMAIN EncoderExts : EncoderExts[i] # cfg.format
            THEN result("ErrCodecNotFound", NoOutput, "codecNotFound")
       ELSE IF cfg.withDocumentation
            THEN IF unifiedFails THEN result("ErrUnified", NoOutput, "unifiedError")
                 ELSE IF encodeFails THEN result("ErrEncoding", NoOutput, "documentError")
                 ELSE result("nil", <<"yaml", "documented", mt.tree>>, "document")
       ELSE IF encodeFails THEN result("ErrEncoding", NoOutput, "encodeError")
       ELSE IF cfg.withOrigins
            THEN result("nil", <<cfg.format, "extended", mt.tree>>, "extended")
            ELSE result("nil", <<cfg.format, "raw", ToRaw(mt.tree)>>, "encoded")

\* the body of Config.Marshal after the lock is taken: [err, out, exit].
\* unifiedFails and encodeFails are the outcomes of calcUnified and of the
\* encoder; exit names the return statement taken.
Marshal(opts, unifiedFails, encodeFails) ==
    LET cfg == getMarshalOptions(opts)
        mt == getMarshalTree(cfg)
        result(err, out, exit) == [err |-> err, out |-> out, exit |-> exit]
    IN IF compiledAt = 0 THEN result("ErrNotCompiled", NoOutput, "notCompiled")
       ELSE IF cfg.err # "nil" THEN result(cfg.err, NoOutput, "optionError")
       ELSE IF mt.err # "nil" THEN result(mt.err, NoOutput, "treeError")
       ELSE IF mt.isNil THEN result("nil", NoOutput, "emptyTree")
       ELSE IF cfg.withDocumentation
            THEN IF unifiedFails THEN result("ErrUnified", NoOutput, "unifiedError")
                 ELSE IF encodeFails THEN result("ErrEncoding", NoOutput, "documentError")
                 ELSE result("nil", <<"yaml", "documented", mt.tree>>, "document")
       ELSE IF \A i \in DOMAIN EncoderExts : EncoderExts[i] # cfg.format
            THEN result("ErrCodecNotFound", NoOutput, "codecNotFound")
       ELSE IF encodeFails THEN result("ErrEncoding", NoOutput, "encodeError")
       ELSE IF cfg.withOrigins
            THEN result("nil", <<cfg.format, "extended", mt.tree>>, "extended")
            ELSE result("nil", <<cfg.format, "raw", ToRaw(mt.tree)>>, "encoded")

\* the Marshal calls of the model: the options given, and the outcomes of
\* calcUnified and of the encoder
MarshalCall(opts, unifiedFails, encodeFails) ==
    [opts |-> opts, unifiedFails |-> unifiedFails, encodeFails |-> encodeFails]

MarshalCalls ==
    {MarshalCall(<<>>, FALSE, FALSE),
     MarshalCall(<<>>, FALSE, TRUE),
     MarshalCall(<<Opt("WithError", TRUE)>>, FALSE, FALSE),
     MarshalCall(<<Opt("RedactSecrets", TRUE)>>, FALSE, FALSE),
     MarshalCall(<<Opt("OnlyDefaults", TRUE)>>, FALSE, FALSE),
     MarshalCall(<<Opt("IncludeOrigins", TRUE)>>, FALSE, FALSE),
     MarshalCall(<<Opt("IncludeDocumentation", TRUE)>>, FALSE, FALSE),
     MarshalCall(<<Opt("IncludeDocumentation", TRUE)>>, TRUE, FALSE),
     MarshalCall(<<Opt("IncludeDocumentation", TRUE)>>, FALSE, TRUE),
     MarshalCall(<<FormatAs("toml")>>, FALSE, FALSE),
     MarshalCall(<<Opt("IncludeDocumentation", TRUE), FormatAs("toml")>>, FALSE, FALSE)}

\* Marshal entering its body without c.mutex.Lock()
MarshalNoLock(t) ==
    /\ pc[t] = "idle"
    /\ pc' = [pc EXCEPT ![t] = "locked"]
    /\ op' = [op EXCEPT ![t] = "Marshal"]
    /\ UNCHANGED <<optVars, cfgVars, mutex, ret, fgOut, expOut, call>>

\* a Marshal whose getMarshalTree works on c.tree itself and not on a copy:
\* the defaults-only and the redacted tree replace the compiled tree
MarshalBodyInPlace(t, opts, unifiedFails, encodeFails) ==
    /\ pc[t] = "locked"
    /\ op[t] = "Marshal"
    /\ LET r == Marshal(opts, unifiedFails, encodeFails)
       IN ret' = [ret EXCEPT ![t] = [op |-> "Marshal", err |-> r.err, out |-> r.out, exit |-> r.exit]]
    /\ tree' = IF compiledAt # 0 /\ getMarshalOptions(opts).err = "nil"
                  /\ getMarshalTree(getMarshalOptions(opts)).err = "nil"
               THEN getMarshalTree(getMarshalOptions(opts)).tree
               ELSE tree
    /\ pc' = [pc EXCEPT ![t] = "ret"]
    /\ UNCHANGED <<optVars, compiledAt, records, mutex, op, fgOut, expOut>>

\* Marshal takes the mutex for the whole call
MarshalLock(t) ==
    /\ pc[t] = "idle"
    /\ MutexLock(t)
    /\ pc' = [pc EXCEPT ![t] = "locked"]
    /\ op' = [op EXCEPT ![t] = "Marshal"]
    /\ UNCHANGED <<optVars, cfgVars, ret, fgOut, expOut, call>>

MarshalBody(t, opts, unifiedFails, encodeFails) ==
    /\ pc[t] = "locked"
    /\ op[t] = "Marshal"
    /\ LET r == Marshal(opts, unifiedFails, encodeFails)
       IN ret' = [ret EXCEPT ![t] = [op |-> "Marshal", err |-> r.err, out |-> r.out, exit |-> r.exit]]
    /\ pc' = [pc EXCEPT ![t] = "ret"]
    /\ UNCHANGED <<optVars, cfgVars, mutex, op, fgOut, expOut>>

\* ---- Config.Unmarshal -----------------------------------------------------

\* one UnmarshalOption applied to the unmarshalOptions: unmarshalApply
unmarshalApply(options, opt) ==
    CASE opt.kind = "Optional" -> [options EXCEPT !.optional = opt.val]
      [] opt.kind = "Required" -> [options EXCEPT !.optional = ~opt.val]
      [] opt.kind = "WithValidator" -> [options EXCEPT !.validator = opt.val]
      [] OTHER -> [options EXCEPT !.err = "ErrOption"]

RECURSIVE unmarshalApplyAll(_, _, _)
unmarshalApplyAll(options, full, i) ==
    IF i > Len(full) \/ options.err # "nil" THEN options
    ELSE unmarshalApplyAll(unmarshalApply(options, full[i]), full, i + 1)

\* Config.unmarshal applying the call's options before the Config's defaults
unmarshalDefaultsLast(key, t, opts, decodeFails, validatorFails) ==
    LET options == unmarshalApplyAll([optional |-> FALSE, validator |-> FALSE, err |-> "nil"],
                                     opts \o unmarshalOptions, 1)
        f == IF key # "" THEN Fetch(t, KeyPath(key)) ELSE [obj |-> t, err |-> "nil"]
        result(err, out, exit) == [err |-> err, out |-> out, exit |-> exit]
    IN IF options.err # "nil" THEN result(options.err, NoOutput, "optionError")
       ELSE IF f.err # "nil" /\ (~options.optional \/ f.err # "ErrNotFound")
            THEN result(f.err, NoOutput, "fetchError")
       ELSE IF decodeFails THEN result("ErrDecode", NoOutput, "decodeError")
       ELSE IF options.validator /\ validatorFails
            THEN result("ErrValidator", NoOutput, "validatorError")
       ELSE result("nil", <<ToRaw(f.obj)>>, "decoded")

\* Config.unmarshal: [err, out, exit].  decodeFails and validatorFails are the
\* outcomes of the struct decoder and of the validator.
unmarshal(key, t, opts, decodeFails, validatorFails) ==
    LET options == unmarshalApplyAll([optional |-> FALSE, validator |-> FALSE, err |-> "nil"],
                                     unmarshalOptions \o opts, 1)
        f == IF key # "" THEN Fetch(t, KeyPath(key)) ELSE [obj |-> t, err |-> "nil"]
        result(err, out, exit) == [err |-> err, out |-> out, exit |-> exit]
    IN IF options.err # "nil" THEN result(options.err, NoOutput, "optionError")
       ELSE IF f.err # "nil" /\ (~options.optional \/ f.err # "ErrNotFound")
            THEN result(f.err, NoOutput, "fetchError")
       ELSE IF decodeFails THEN result("ErrDecode", NoOutput, "decodeError")
       ELSE IF options.validator /\ validatorFails
            THEN result("ErrValidator", NoOutput, "validatorError")
       ELSE result("nil", <<ToRaw(f.obj)>>, "decoded")

\* Unmarshal without the test of compiledAt
UnmarshalUnchecked(key, opts, decodeFails, validatorFails) ==
    unmarshal(key, tree, opts, decodeFails, validatorFails)

\* the body of Config.Unmarshal after the lock is taken
Unmarshal(key, opts, decodeFails, validatorFails) ==
    IF compiledAt = 0
    THEN [err |-> "ErrNotCompiled", out |-> NoOutput, exit |-> "notCompiled"]
    ELSE unmarshal(key, tree, opts, decodeFails, validatorFails)

\* the Unmarshal calls of the model: the key, the options given, and the
\* outcomes of the struct decoder and of the validator
UnmarshalCall(key, opts, decodeFails, validatorFails) ==
    [key |-> key, opts |-> opts, decodeFails |-> decodeFails, validatorFails |-> validatorFails]

UnmarshalCalls ==
    {UnmarshalCall("", <<>>, FALSE, FALSE),
     UnmarshalCall("a", <<>>, FALSE, FALSE),
     UnmarshalCall("a.x", <<>>, FALSE, FALSE),
     UnmarshalCall("a.0", <<>>, FALSE, FALSE),
     UnmarshalCall("zz", <<>>, FALSE, FALSE),
     UnmarshalCall("zz", <<Opt("Optional", TRUE)>>, FALSE, FALSE),
     UnmarshalCall("zz", <<Opt("Required", TRUE)>>, FALSE, FALSE),
     UnmarshalCall("zz", <<Opt("Optional", TRUE), Opt("Required", FALSE)>>, FALSE, FALSE),
     UnmarshalCall("a", <<Opt("WithError", TRUE)>>, FALSE, FALSE),
     UnmarshalCall("a", <<>>, TRUE, FALSE),
     UnmarshalCall("a", <<Opt("WithValidator", TRUE)>>, FALSE, TRUE),
     UnmarshalCall("a", <<Opt("WithValidator", TRUE)>>, FALSE, FALSE)}

\* Unmarshal takes the mutex for the whole call
UnmarshalLock(t) ==
    /\ pc[t] = "idle"
    /\ MutexLock(t)
    /\ pc' = [pc EXCEPT ![t] = "locked"]
    /\ op' = [op EXCEPT ![t] = "Unmarshal"]
    /\ UNCHANGED <<optVars, cfgVars, ret, fgOut, expOut, call>>

UnmarshalBody(t, key, opts, decodeFails, validatorFails) ==
    /\ pc[t] = "locked"
    /\ op[t] = "Unmarshal"
    /\ LET r == Unmarshal(key, opts, decodeFails, validatorFails)
       IN ret' = [ret EXCEPT ![t] = [op |-> "Unmarshal", err |-> r.err, out |-> r.out, exit |-> r.exit]]
    /\ pc' = [pc EXCEPT ![t] = "ret"]
    /\ UNCHANGED <<optVars, cfgVars, mutex, op, fgOut, expOut>>


\* ---- the calls of the collection and expansion specifications ------------

Filegroup(fsys, paths, exactFile, halt, as, rec) ==
    [fs |-> fsys, paths |-> paths, recurse |-> rec, exactFile |-> exactFile,
     halt |-> halt, as |-> as]

\* the filegroups the options can declare
FilegroupChoices ==
    {Filegroup("local", <<"./1.json">>, FALSE, TRUE, "", FALSE),
     Filegroup("local", <<"./dir", "./1.json">>, FALSE, TRUE, "", FALSE),
     Filegroup("local", <<"*.json">>, FALSE, FALSE, "", TRUE),
     Filegroup("local", <<"gone.json", "1.json">>, FALSE, TRUE, "", FALSE),
     Filegroup("local", <<"notes.txt">>, FALSE, TRUE, "", FALSE),
     Filegroup("local", <<"notes.txt">>, TRUE, FALSE, "", FALSE),
     Filegroup("local", <<"notes.txt">>, TRUE, FALSE, ".json", FALSE),
     Filegroup("home", <<"example.json">>, FALSE, FALSE, "", FALSE),
     Filegroup("home", <<"example.json">>, FALSE, FALSE, "yml", FALSE),
     Filegroup("none", <<"example.json">>, FALSE, TRUE, "", FALSE),
     Filegroup("none", <<"example.json">>, TRUE, FALSE, "", FALSE),
     Filegroup("racy", <<"dir">>, FALSE, TRUE, "", TRUE),
     Filegroup("racy", <<"1.json">>, FALSE, FALSE, "", FALSE),
     Filegroup("locked", <<"1.json">>, FALSE, TRUE, "", FALSE),
     Filegroup("broken", <<"1.json">>, FALSE, FALSE, "", FALSE),
     Filegroup("local", <<"[">>, FALSE, FALSE, "", FALSE),
     Filegroup("local", <<"/etc/example.json">>, FALSE, FALSE, "", FALSE)}

\* filegroupsToRecords called on the declared filegroups
CollectRecords ==
    /\ fgOut' = [fgs |-> filegroups, out |-> filegroupsToRecords(filegroups)]
    /\ UNCHANGED <<optVars, cfgVars, mutex, pc, op, ret, expOut, call>>

Directive(expander, start, finish, origin, maximum) ==
    [expander |-> expander, start |-> start, finish |-> finish,
     origin |-> origin, maximum |-> maximum]

\* the Expand options the model applies
ExpandChoices ==
    {Directive("env", "${", "}", "environment", 1),
     Directive("env", "${", "}", "environment", 2),
     Directive("alt", "<", ">", "alt", 0),
     Directive("alt", "<", ">", "alt", 1),
     Directive("env", "<", ">", "environment", 1),
     Directive("nil", "${", "}", "", 0)}

\* the buffers whose strings hold placeholders
ExpandBuffers == {"{a:${A}}", "{a:${S}}", "{a:${P}}", "{a:${U},b:${B}}", "{a:[1,x${B}]}"}

\* expandTree called on a decoded tree
ExpandTreeCall(b, max) ==
    /\ expOut' = [in |-> Decode("9.json", b).tree, max |-> max, exps |-> expansions,
                  out |-> expandTree(Decode("9.json", b).tree, max, expansions)]
    /\ UNCHANGED <<optVars, cfgVars, mutex, pc, op, ret, fgOut, call>>


\* ---- calcUnified (shared_test.go) -----------------------------------------

\* pkg/doc: the reserved child names. Their text is taken to start with a
\* punctuation mark that sorts after the digits and before the lower-case
\* letters, as KeyRank has it.
NAME_ARRAY == "<array>"
NAME_EMBEDDED == "<embedded>"
NAME_MAP_KEY == "<key>"
NAME_MAP_VALUE == "<value>"

\* pkg/doc Object: a type tag, named children, documentation text and the
\* deprecation flag; NilDoc is the nil *doc.Object
DocWith(type, children, text, deprecated) ==
    [Type |-> type, Children |-> children, Doc |-> text, Deprecated |-> deprecated]
Doc(type, children) == DocWith(type, children, "", FALSE)
NilDoc == Doc("nil", EmptyMap)

\* the nil *meta.Object
NilObject == [Kind |-> "nil", Value |-> <<>>, Array |-> <<>>, Map |-> EmptyMap, Origins |-> <<>>]

\* a meta.Object with both its Array and its Map filled
ArrayAndMap(elems, m) ==
    [Kind |-> "map", Value |-> <<>>, Array |-> elems, Map |-> m, Origins |-> <<>>]

\* unified.preset: nil, or a value held as the string it prints as
NilPreset == [set |-> FALSE, text |-> ""]
Preset(text) == [set |-> TRUE, text |-> text]

\* the nil *string of unified.key
NilKey == "nil"

ErrConflicting == "conflicting definitions: array and map cannot coexist in the same object"
ErrArrayKey == "array key cannot be used in a map object"
ErrEmbeddedKey == "embedded key cannot be used in a map object"

\* sort.Strings on the keys in use: byte order
KeyRank(k) ==
    CASE k = "1" -> 1
      [] k = NAME_ARRAY -> 2
      [] k = NAME_EMBEDDED -> 3
      [] k = NAME_MAP_KEY -> 4
      [] k = NAME_MAP_VALUE -> 5
      [] k = "a" -> 6
      [] k = "b" -> 7
      [] OTHER -> 8

RECURSIVE sortNames(_)
sortNames(S) ==
    IF S = {} THEN <<>>
    ELSE LET m == CHOOSE k \in S : \A o \in S : KeyRank(k) <= KeyRank(o)
         IN <<m>> \o sortNames(S \ {m})

\* strconv.Itoa for i >= 0
RECURSIVE Itoa(_)
Itoa(i) ==
    IF i < 10 THEN <<"0", "1", "2", "3", "4", "5", "6", "7", "8", "9">>[i + 1]
    ELSE Itoa(i \div 10) \o Itoa(i % 10)

\* unified{indent, key, doc}: the node calcUnifiedInternal starts from
NewUnified(name, indent, d) ==
    [indent |-> indent, key |-> name, doc |-> d, value |-> <<>>, preset |-> NilPreset,
     array |-> FALSE, children |-> EmptyMap]

\* unified{}: the zero value returned next to an error from below
ZeroUnified == NewUnified(NilKey, 0, NilDoc)

\* u.children[key] = got
SetChild(children, key, got) ==
    [k \in DOMAIN children \cup {key} |-> IF k = key THEN got ELSE children[k]]

docArray(d) == d # NilDoc /\ d.Type = "array"

arrayLen(compiled) == IF compiled # NilObject THEN Len(compiled.Array) ELSE 0

\* len(d.Children) of a doc that is no array, which is where mapLen starts
docLen(d) == IF d # NilDoc /\ d.Type # "array" THEN Cardinality(DOMAIN d.Children) ELSE 0

mapLen(d, compiled) ==
    IF compiled # NilObject /\ Cardinality(DOMAIN compiled.Map) > docLen(d)
    THEN Cardinality(DOMAIN compiled.Map)
    ELSE docLen(d)

\* determineNames: the keys of the doc's children and of the compiled map, sorted
determineNames(u, compiled) ==
    sortNames((IF u.doc # NilDoc THEN DOMAIN u.doc.Children ELSE {})
              \cup (IF compiled # NilObject THEN DOMAIN compiled.Map ELSE {}))

\* the doc handed to the first element, had an array without element
\* documentation handed down none
firstDocElementOnly(u) ==
    IF u.doc # NilDoc /\ NAME_ARRAY \in DOMAIN u.doc.Children
    THEN u.doc.Children[NAME_ARRAY]
    ELSE NilDoc

\* calcUnifiedArray: the doc handed to the first element
firstDoc(u) ==
    IF u.doc # NilDoc /\ NAME_ARRAY \in DOMAIN u.doc.Children
    THEN u.doc.Children[NAME_ARRAY]
    ELSE u.doc

\* calcUnifiedMap: the default case's nextDoc and nextCompiled
nextDocOf(u, key) ==
    IF u.doc # NilDoc /\ key \in DOMAIN u.doc.Children THEN u.doc.Children[key] ELSE NilDoc

nextCompiledOf(compiled, key) ==
    IF compiled # NilObject /\ key \in DOMAIN compiled.Map THEN compiled.Map[key] ELSE NilObject

\* the conflict test, had it looked at the documentation's type only
conflictingDocOnly(isArray, aLen, mLen) == isArray /\ mLen > 0

\* the conflict test of calcUnifiedInternal
conflicting(isArray, aLen, mLen) == (isArray /\ mLen > 0) \/ (mLen > 0 /\ aLen > 0)

\* withOrigins is only handed down by these functions and is left out.
RECURSIVE calcUnifiedInternal(_, _, _, _)
RECURSIVE calcUnifiedArrayLoop(_, _, _, _, _)
RECURSIVE calcUnifiedMapLoop(_, _, _, _, _)

\* the loop body, had it handed the element documentation to every element
calcUnifiedArrayNextRepeatDoc(u, indent, compiled, i, got) ==
    IF got.err # "nil"
    THEN [u |-> ZeroUnified, err |-> got.err]
    ELSE calcUnifiedArrayLoop([u EXCEPT !.children = SetChild(@, Itoa(i - 1), got.u)],
                              indent, compiled, i + 1, firstDoc(u))

\* calcUnifiedArray's loop body after the recursive call returned got
calcUnifiedArrayNext(u, indent, compiled, i, got) ==
    IF got.err # "nil"
    THEN [u |-> ZeroUnified, err |-> got.err]
    ELSE calcUnifiedArrayLoop([u EXCEPT !.children = SetChild(@, Itoa(i - 1), got.u)],
                              indent, compiled, i + 1, NilDoc)

\* for i, next := range compiled.Array (i counts from 1 here)
calcUnifiedArrayLoop(u, indent, compiled, i, nextDoc) ==
    IF i > Len(compiled.Array)
    THEN [u |-> u, err |-> "nil"]
    ELSE calcUnifiedArrayNext(u, indent, compiled, i,
             calcUnifiedInternal(NilKey, indent + 1, nextDoc, compiled.Array[i]))

calcUnifiedArray(u, indent, compiled) ==
    calcUnifiedArrayLoop([u EXCEPT !.array = TRUE], indent, compiled, 1, firstDoc(u))

\* calcUnifiedMap's default case after the recursive call returned got
calcUnifiedMapNext(u, indent, compiled, names, i, got) ==
    IF got.err # "nil"
    THEN [u |-> ZeroUnified, err |-> got.err]
    ELSE calcUnifiedMapLoop([u EXCEPT !.children = SetChild(@, names[i], got.u)],
                            indent, compiled, names, i + 1)

\* the loop, had it treated the map-key and map-value names as ordinary keys
calcUnifiedMapLoopEmitAll(u, indent, compiled, names, i) ==
    IF i > Len(names) THEN [u |-> u, err |-> "nil"]
    ELSE IF names[i] = NAME_ARRAY THEN [u |-> ZeroUnified, err |-> ErrArrayKey]
    ELSE IF names[i] = NAME_EMBEDDED THEN [u |-> ZeroUnified, err |-> ErrEmbeddedKey]
    ELSE calcUnifiedMapNext(u, indent, compiled, names, i,
             calcUnifiedInternal(names[i], indent + 1, nextDocOf(u, names[i]),
                                 nextCompiledOf(compiled, names[i])))

\* for _, key := range names
calcUnifiedMapLoop(u, indent, compiled, names, i) ==
    IF i > Len(names) THEN [u |-> u, err |-> "nil"]
    ELSE IF names[i] = NAME_ARRAY THEN [u |-> ZeroUnified, err |-> ErrArrayKey]
    ELSE IF names[i] = NAME_EMBEDDED THEN [u |-> ZeroUnified, err |-> ErrEmbeddedKey]
    ELSE IF names[i] \in {NAME_MAP_KEY, NAME_MAP_VALUE}
    THEN calcUnifiedMapLoop(u, indent, compiled, names, i + 1)
    ELSE calcUnifiedMapNext(u, indent, compiled, names, i,
             calcUnifiedInternal(names[i], indent + 1, nextDocOf(u, names[i]),
                                 nextCompiledOf(compiled, names[i])))

calcUnifiedMap(u, indent, compiled) ==
    calcUnifiedMapLoop(u, indent, compiled, determineNames(u, compiled), 1)

\* calcUnifiedInternal once docArray, arrayLen and mapLen are known
calcUnifiedShape(u, indent, d, compiled, isArray, aLen, mLen) ==
    IF aLen + mLen = 0
    THEN [u |-> IF compiled # NilObject THEN [u EXCEPT !.value = compiled.Value] ELSE u,
          err |-> "nil"]
    ELSE IF conflicting(isArray, aLen, mLen)
    THEN [u |-> u, err |-> ErrConflicting]
    ELSE IF isArray \/ aLen > 0
    THEN calcUnifiedArray(u, indent, compiled)
    ELSE calcUnifiedMap(u, indent, compiled)

calcUnifiedInternal(name, indent, d, compiled) ==
    calcUnifiedShape(NewUnified(name, indent, d), indent, d, compiled,
                     docArray(d), arrayLen(compiled), mapLen(d, compiled))

calcUnified(d, compiled) == calcUnifiedInternal(NilKey, 0 - 1, d, compiled)

\* a call of calcUnified, its arguments and result recorded
CalcUnifiedCall(d, compiled) ==
    /\ call' = [op |-> "calcUnified", doc |-> d, compiled |-> compiled,
                out |-> calcUnified(d, compiled)]
    /\ UNCHANGED <<optVars, cfgVars, mutex, pc, op, ret, fgOut, expOut>>


\* ---- strings (package strings) ----------------------------------------------

\* s[i], counting from 1
At(s, i) == SubSeq(s, i, i)

\* s[i:], counting from 1
From(s, i) == SubSeq(s, i, Len(s))

HasPrefix(s, p) == Len(p) <= Len(s) /\ SubSeq(s, 1, Len(p)) = p
HasSuffix(s, p) == Len(p) <= Len(s) /\ SubSeq(s, Len(s) - Len(p) + 1, Len(s)) = p
Contains(s, sub) == \E i \in 1..(Len(s) - Len(sub) + 1) : SubSeq(s, i, i + Len(sub) - 1) = sub

\* strings.Split(s, sep) for a separator of one character
RECURSIVE splitFrom(_, _, _, _)
splitFrom(s, sep, i, cur) ==
    IF i > Len(s) THEN <<cur>>
    ELSE IF At(s, i) = sep THEN <<cur>> \o splitFrom(s, sep, i + 1, "")
    ELSE splitFrom(s, sep, i + 1, cur \o At(s, i))

Split(s, sep) == splitFrom(s, sep, 1, "")

\* strings.Join
RECURSIVE Join(_, _)
Join(lines, sep) ==
    IF lines = <<>> THEN ""
    ELSE IF Len(lines) = 1 THEN lines[1]
    ELSE lines[1] \o sep \o Join(Tail(lines), sep)

\* strings.Repeat
RECURSIVE Repeat(_, _)
Repeat(s, n) == IF n <= 0 THEN "" ELSE s \o Repeat(s, n - 1)

\* unicode.IsSpace on the characters in use
IsSpace(c) == c \in {" ", "\t", "\n", "\r"}

\* strings.TrimSpace
RECURSIVE TrimLeft(_)
TrimLeft(s) == IF Len(s) > 0 /\ IsSpace(At(s, 1)) THEN TrimLeft(From(s, 2)) ELSE s

RECURSIVE TrimRight(_)
TrimRight(s) ==
    IF Len(s) > 0 /\ IsSpace(At(s, Len(s))) THEN TrimRight(SubSeq(s, 1, Len(s) - 1)) ELSE s

TrimSpace(s) == TrimRight(TrimLeft(s))

\* strings.TrimSuffix, strings.TrimPrefix
TrimSuffix(s, p) == IF HasSuffix(s, p) THEN SubSeq(s, 1, Len(s) - Len(p)) ELSE s
TrimPrefix(s, p) == IF HasPrefix(s, p) THEN From(s, Len(p) + 1) ELSE s

\* strings.ReplaceAll(s, old, new) for an old of one character
RECURSIVE ReplaceAll(_, _, _)
ReplaceAll(s, old, new) ==
    IF s = "" THEN ""
    ELSE (IF At(s, 1) = old THEN new ELSE At(s, 1)) \o ReplaceAll(From(s, 2), old, new)

\* strings.Fields: the words between runs of white space
RECURSIVE fieldsFrom(_, _, _)
fieldsFrom(s, i, cur) ==
    IF i > Len(s) THEN (IF cur = "" THEN <<>> ELSE <<cur>>)
    ELSE IF IsSpace(At(s, i))
         THEN (IF cur = "" THEN <<>> ELSE <<cur>>) \o fieldsFrom(s, i + 1, "")
    ELSE fieldsFrom(s, i + 1, cur \o At(s, i))

Fields(s) == fieldsFrom(s, 1, "")

\* ---- unified.Headers (shared_test.go) ---------------------------------------

noticeDeprecated == "!!! DEPRECATED !!!"

\* pkg/doc: the root type tag, and Object.TypeString, which is taken to give
\* the tag of a root and the bracketed tag of every other type
TYPE_ROOT == "root"
TypeString(d) == IF d.Type = TYPE_ROOT THEN TYPE_ROOT ELSE "<" \o d.Type \o ">"

\* toString on a preset, which is held as the string it prints as
toString(p) == p.text

\* the type lines: typs with "type: " put before the first, and the first
\* removed for a root
headersType(typ, typs) ==
    IF typ = TYPE_ROOT THEN Tail(typs)
    ELSE <<"type: " \o typs[1]>> \o Tail(typs)

\* the doc block: the doc lines and the type lines
headersDoc(u) ==
    IF u.doc # NilDoc
    THEN Split(u.doc.Doc, "\n") \o headersType(TypeString(u.doc), Split(TypeString(u.doc), "\n"))
    ELSE <<>>

\* the default line, had it been put before the doc block
headersPresetFirst(u, rv) ==
    IF u.preset # NilPreset THEN <<"default: " \o toString(u.preset)>> \o rv ELSE rv

\* the default line
headersPreset(u, rv) ==
    IF u.preset # NilPreset THEN Append(rv, "default: " \o toString(u.preset)) ELSE rv

\* the deprecation notices around the lines
headersDeprecated(u, rv) ==
    IF u.doc # NilDoc /\ u.doc.Deprecated
    THEN <<noticeDeprecated>> \o rv \o <<noticeDeprecated>>
    ELSE rv

Headers(u) == headersDeprecated(u, headersPreset(u, headersDoc(u)))

\* a call of unified.Headers, its receiver and result recorded
HeadersCall(u) ==
    /\ call' = [op |-> "Headers", u |-> u, out |-> Headers(u)]
    /\ UNCHANGED <<optVars, cfgVars, mutex, pc, op, ret, fgOut, expOut>>


\* ---- unified.childKeys (shared_test.go, internal/natsort) -------------------

\* strconv.ParseFloat on the keys in use: whether the key parses, and the
\* value, which for "NaN" is the not-a-number
ParseFloat(k) ==
    CASE k = "1" -> [ok |-> TRUE, nan |-> FALSE, num |-> 1]
      [] k = "1.0" -> [ok |-> TRUE, nan |-> FALSE, num |-> 1]
      [] k = "2" -> [ok |-> TRUE, nan |-> FALSE, num |-> 2]
      [] k = "10" -> [ok |-> TRUE, nan |-> FALSE, num |-> 10]
      [] k = "NaN" -> [ok |-> TRUE, nan |-> TRUE, num |-> 0]
      [] OTHER -> [ok |-> FALSE, nan |-> FALSE, num |-> 0]

\* a < b on strings: byte order on the keys in use
StringRank(k) ==
    CASE k = "1" -> 1
      [] k = "1.0" -> 2
      [] k = "10" -> 3
      [] k = "2" -> 4
      [] k = "NaN" -> 5
      [] k = "a" -> 6
      [] OTHER -> 7

StringLess(a, b) == StringRank(a) < StringRank(b)

\* == and < on float64: both are false when either side is the not-a-number
FloatEqual(x, y) == ~x.nan /\ ~y.nan /\ x.num = y.num
FloatLess(x, y) == ~x.nan /\ ~y.nan /\ x.num < y.num

\* natsort.CompareFloat once both keys are parsed
compareParsed(a, b, aNum, bNum) ==
    IF aNum.ok /\ bNum.ok
    THEN IF FloatEqual(aNum, bNum) THEN StringLess(a, b) ELSE FloatLess(aNum, bNum)
    ELSE IF aNum.ok THEN TRUE
    ELSE IF bNum.ok THEN FALSE
    ELSE StringLess(a, b)

CompareFloat(a, b) == compareParsed(a, b, ParseFloat(a), ParseFloat(b))

Swap(data, i, j) ==
    [k \in DOMAIN data |-> IF k = i THEN data[j] ELSE IF k = j THEN data[i] ELSE data[k]]

\* sort.Slice on a short slice is an insertion sort: the element at j moves
\* down while it is less than the one before it
RECURSIVE insertDown(_, _)
insertDown(data, j) ==
    IF j > 1 /\ CompareFloat(data[j], data[j - 1])
    THEN insertDown(Swap(data, j, j - 1), j - 1)
    ELSE data

RECURSIVE insertionSort(_, _)
insertionSort(data, i) ==
    IF i > Len(data) THEN data ELSE insertionSort(insertDown(data, i), i + 1)

\* unified.childKeys: keys holds the keys in the order the map's range gave them
childKeys(keys) == insertionSort(keys, 2)

\* a call of childKeys on a node whose map was ranged over in the given order
ChildKeysCall(keys) ==
    /\ call' = [op |-> "childKeys", keys |-> keys, out |-> childKeys(keys)]
    /\ UNCHANGED <<optVars, cfgVars, mutex, pc, op, ret, fgOut, expOut>>


\* ---- yaml formatters (internal/encoding/yaml/formatter.go) ------------------

Chars(s) == {At(s, i) : i \in 1..Len(s)}

Digits == {"0", "1", "2", "3", "4", "5", "6", "7", "8", "9"}

\* the control characters below 128 other than newline and tab
ControlChars == {"\r", "\f"}

Keywords == {"null", "true", "false", "~", ".inf", "-.inf", ".nan", "yes", "no", "on", "off"}

\* isKeyword; the values in use hold no upper-case letter, so strings.ToLower
\* leaves them as they are
isKeyword(s) == s \in Keywords

\* isNumeric: an optional sign and then digits only; the values in use hold
\* no ".", so the float branch never answers
isNumeric(s) ==
    /\ Len(s) > 0
    /\ \A i \in 1..Len(s) : At(s, i) \in Digits \/ (i = 1 /\ At(s, i) \in {"-", "+"})
    /\ At(s, Len(s)) \in Digits

hasControlChars(s) == Chars(s) \cap ControlChars # {}

\* the punctuation hasSpecialChars looks for (the backquote, which no value in
\* use holds, is left out)
SpecialChars == {"#", "&", "*", "!", "|", "'", "\"", "%", "@"}

hasSpecialChars(s) ==
    \/ hasControlChars(s)
    \/ Chars(s) \cap SpecialChars # {}
    \/ Contains(s, ": ")
    \/ Contains(s, "\\")

hasSpecialSpaces(s) ==
    /\ Len(s) > 0
    /\ \/ At(s, 1) # "\n" /\ IsSpace(At(s, 1))
       \/ At(s, Len(s)) # "\n" /\ IsSpace(At(s, Len(s)))

hasNormalContent(s) == \E c \in Chars(s) : ~IsSpace(c)

\* Renderer.maxLineLength returns math.MaxInt for no wrapping
MaxInt == 2147483647

\* what a formatter returns: the lines, the block style and whether it applies
Formatted(lines, style) == [lines |-> lines, style |-> style, ok |-> TRUE]
NotFormatted == [lines |-> <<>>, style |-> "", ok |-> FALSE]

\* json.Marshal of a string: quoted, with the escapes of the characters in use
jsonEscape(c) ==
    CASE c = "\n" -> "\\n"
      [] c = "\t" -> "\\t"
      [] c = "\r" -> "\\r"
      [] c = "\f" -> "\\f"
      [] c = "\"" -> "\\\""
      [] c = "\\" -> "\\\\"
      [] OTHER -> c

RECURSIVE jsonEscapeAll(_)
jsonEscapeAll(s) == IF s = "" THEN "" ELSE jsonEscape(At(s, 1)) \o jsonEscapeAll(From(s, 2))

jsonMarshal(s) == "\"" \o jsonEscapeAll(s) \o "\""

quoteAndEscapeValue(val) ==
    IF jsonMarshal(val) = "\"" \o val \o "\"" THEN val ELSE jsonMarshal(val)

\* findBestSplitPoint: the last space in the upper half of the chunk (s[i] is
\* the character at position i + 1), else the full chunk less the backslash
RECURSIVE findSpace(_, _, _)
findSpace(s, i, effectiveMaxLen) ==
    IF i > effectiveMaxLen \div 2
    THEN IF i < Len(s) /\ At(s, i + 1) = " " THEN i + 1
         ELSE findSpace(s, i - 1, effectiveMaxLen)
    ELSE effectiveMaxLen

findBestSplitPoint(s, maxLen) ==
    IF Len(s) <= maxLen THEN Len(s) ELSE findSpace(s, maxLen - 1, maxLen - 1)

\* the result of a chunkString whose loop never ends
Diverges == <<>>

\* the loop of chunkString; a split at 0 leaves remaining as it was and the
\* loop appends the same chunk for ever
RECURSIVE chunkLoop(_, _, _)
chunkStep(remaining, n, lines, splitPos) ==
    IF splitPos = Len(remaining) THEN Append(lines, remaining)
    ELSE IF splitPos = 0 THEN Diverges
    ELSE chunkLoop(From(remaining, splitPos + 1), n,
                   Append(lines, SubSeq(remaining, 1, splitPos) \o "\\"))

chunkLoop(remaining, n, lines) ==
    IF Len(remaining) > 0
    THEN chunkStep(remaining, n, lines, findBestSplitPoint(remaining, n))
    ELSE lines

chunkQuoted(s, n) == IF n <= 0 THEN <<s>> ELSE chunkLoop(s, n, <<>>)

chunkString(s, n) ==
    chunkQuoted(IF HasPrefix(s, "\"") THEN s ELSE "\"" \o s \o "\"", n)

fits(length, maxLineLength) == maxLineLength <= 0 \/ length <= maxLineLength

tryPlainScalar(val, maxLineLength) ==
    IF /\ ~Contains(val, "\n")
       /\ ~hasSpecialChars(val)
       /\ ~hasSpecialSpaces(val)
       /\ ~isKeyword(val)
       /\ ~isNumeric(val)
       /\ fits(Len(val), maxLineLength)
    THEN Formatted(<<val>>, "")
    ELSE NotFormatted

trySingleQuotes(val, maxLineLength) ==
    IF /\ ~Contains(val, "'")
       /\ ~Contains(val, "\n")
       /\ ~Contains(val, "\t")
       /\ ~hasControlChars(val)
       /\ fits(Len(val) + 2, maxLineLength)
    THEN Formatted(<<"'" \o val \o "'">>, "")
    ELSE NotFormatted

tryWhitespaceOnly(val, maxLineLength) ==
    IF ~hasNormalContent(val)
    THEN Formatted(<<"\"" \o ReplaceAll(val, "\n", "\\n") \o "\"">>, "")
    ELSE NotFormatted

tryWhitespaceOnlyWithNewlines(val, maxLineLength) ==
    IF ~hasNormalContent(val) /\ Contains(val, "\n")
    THEN Formatted(<<"\"" \o ReplaceAll(val, "\n", "\\n") \o "\"">>, "")
    ELSE NotFormatted

tryLeadingTrailingSpaces(val, maxLineLength) ==
    IF hasSpecialSpaces(val) /\ ~Contains(val, "\n")
    THEN Formatted(chunkString(quoteAndEscapeValue(val), maxLineLength), "")
    ELSE NotFormatted

DropLast(lines) == SubSeq(lines, 1, Len(lines) - 1)

tryLiteralBlockScalar(val, maxLineLength) ==
    IF Contains(val, "\n") /\ hasNormalContent(val)
    THEN IF HasSuffix(val, "\n")
         THEN Formatted(DropLast(Split(val, "\n")), "|")
         ELSE Formatted(Split(val, "\n"), "|-")
    ELSE NotFormatted

\* the line filling of tryFoldedBlockScalar: words go on the current line
\* while it stays within the maximum
RECURSIVE foldWords(_, _, _, _)
foldWords(words, maxLineLength, lines, currentLine) ==
    IF words = <<>>
    THEN IF currentLine # "" THEN Append(lines, currentLine) ELSE lines
    ELSE IF currentLine = ""
         THEN foldWords(Tail(words), maxLineLength, lines, Head(words))
    ELSE IF Len(currentLine) + 1 + Len(Head(words)) <= maxLineLength
         THEN foldWords(Tail(words), maxLineLength, lines, currentLine \o " " \o Head(words))
    ELSE foldWords(Tail(words), maxLineLength, Append(lines, currentLine), Head(words))

foldFields(val, maxLineLength, words) ==
    IF Len(words) <= 1 \/ ~(\E i \in DOMAIN words : Len(words[i]) <= maxLineLength)
    THEN NotFormatted
    ELSE Formatted(foldWords(words, maxLineLength, <<>>, ""), ">-")

tryFoldedBlockScalar(val, maxLineLength) ==
    IF maxLineLength <= 0 \/ Len(val) <= maxLineLength \/ hasSpecialChars(val)
    THEN NotFormatted
    ELSE foldFields(val, maxLineLength, Fields(val))

quotedDefault(val, maxLineLength, quotedVal) ==
    IF hasSpecialChars(val) \/ (maxLineLength > 0 /\ Len(quotedVal) > maxLineLength)
    THEN Formatted(chunkString(quotedVal, maxLineLength), "")
    ELSE Formatted(<<quotedVal>>, "")

tryQuotedDefault(val, maxLineLength) ==
    quotedDefault(val, maxLineLength, quoteAndEscapeValue(val))

\* the formatters in the order formatValue tries them
formatters == <<"tryPlainScalar", "trySingleQuotes", "tryWhitespaceOnly",
                "tryWhitespaceOnlyWithNewlines", "tryLeadingTrailingSpaces",
                "tryLiteralBlockScalar", "tryFoldedBlockScalar", "tryQuotedDefault">>

tryFormatter(name, val, maxLineLength) ==
    CASE name = "tryPlainScalar" -> tryPlainScalar(val, maxLineLength)
      [] name = "trySingleQuotes" -> trySingleQuotes(val, maxLineLength)
      [] name = "tryWhitespaceOnly" -> tryWhitespaceOnly(val, maxLineLength)
      [] name = "tryWhitespaceOnlyWithNewlines" -> tryWhitespaceOnlyWithNewlines(val, maxLineLength)
      [] name = "tryLeadingTrailingSpaces" -> tryLeadingTrailingSpaces(val, maxLineLength)
      [] name = "tryLiteralBlockScalar" -> tryLiteralBlockScalar(val, maxLineLength)
      [] name = "tryFoldedBlockScalar" -> tryFoldedBlockScalar(val, maxLineLength)
      [] OTHER -> tryQuotedDefault(val, maxLineLength)

\* the first formatter that applies, from the i-th on
RECURSIVE formatFrom(_, _, _)
formatFrom(i, val, maxLineLength) ==
    IF i > Len(formatters) THEN Formatted(<<val>>, "")
    ELSE IF tryFormatter(formatters[i], val, maxLineLength).ok
         THEN tryFormatter(formatters[i], val, maxLineLength)
    ELSE formatFrom(i + 1, val, maxLineLength)

\* formatValue; v is <<>> for the nil pointer and <<s>> for a pointer to s
formatValue(v, maxLineLength) ==
    IF v = <<>> THEN Formatted(<<"">>, "") ELSE formatFrom(1, v[1], maxLineLength)

\* a call of formatValue
FormatValueCall(v, maxLineLength) ==
    /\ call' = [op |-> "formatValue", v |-> v, maxLineLength |-> maxLineLength,
                out |-> formatValue(v, maxLineLength)]
    /\ UNCHANGED <<optVars, cfgVars, mutex, pc, op, ret, fgOut, expOut>>


\* ---- yaml.Renderer (internal/encoding/yaml) ---------------------------------

Renderer(maxLine, commentColumn, spaces) ==
    [MaxLineLength |-> maxLine, TrailingCommentColumn |-> commentColumn,
     SpacesPerIndent |-> spaces]

\* the option FormatAsYAML carries
FormatAsYAMLOptions(maxLine, commentColumn, spaces) ==
    [MaxLineLength |-> maxLine, TrailingCommentColumn |-> commentColumn,
     SpacesPerIndent |-> spaces]

\* FormatAsYAMLOptions.marshalApply: the format and the encoder it selects
yamlMarshalApply(f) ==
    [format |-> "yaml",
     enc |-> Renderer(f.MaxLineLength, f.TrailingCommentColumn, f.SpacesPerIndent)]

\* the loop of Renderer.maxLineLength: multiples of MaxLineLength until the
\* prefix fits
RECURSIVE maxLineLengthLoop(_, _, _, _)
maxLineLengthLoop(r, prefixLen, i, maxLen) ==
    IF maxLen < 1
    THEN maxLineLengthLoop(r, prefixLen, i + 1, r.MaxLineLength * i - prefixLen)
    ELSE maxLen

maxLineLength(r, prefixLen) ==
    IF r.MaxLineLength <= 0 THEN MaxInt
    ELSE maxLineLengthLoop(r, prefixLen, 2, r.MaxLineLength - prefixLen)

\* Renderer.indent
indent(r, i) ==
    IF i <= 0 THEN ""
    ELSE Repeat(" ", i * (IF r.SpacesPerIndent <= 0 THEN 2 ELSE r.SpacesPerIndent))

\* the spaces writeMainLine puts before a trailing comment
commentSpaces(r, line) ==
    IF r.TrailingCommentColumn - Len(line) > 1 THEN r.TrailingCommentColumn - Len(line) ELSE 1

\* the key part of a line, as prepareLine starts it; key is <<>> for no key
keyLine(r, level, key) ==
    IF key = <<>> THEN indent(r, level) \o "-" ELSE indent(r, level) \o key[1] \o ":"

\* what a renderer set up by FormatAsYAML(f) does with a node at the given
\* level whose value is val: the key part of its line, the value formatted for
\* the rest of the line, and the spaces before a trailing comment
renderWith(r, level, val, line) ==
    [line |-> line,
     maxLineLength |-> maxLineLength(r, Len(line) - 1),
     value |-> formatValue(<<val>>, maxLineLength(r, Len(line) - 1)),
     spaces |-> commentSpaces(r, line)]

FormatAsYAMLCall(f, level, val) ==
    /\ call' = [op |-> "FormatAsYAML", f |-> f, level |-> level, val |-> val,
                enc |-> yamlMarshalApply(f).enc,
                out |-> renderWith(yamlMarshalApply(f).enc, level, val,
                                   keyLine(yamlMarshalApply(f).enc, level, <<"k">>))]
    /\ UNCHANGED <<optVars, cfgVars, mutex, pc, op, ret, fgOut, expOut>>


\* ---- chunkString, step by step -----------------------------------------------

\* the index of the first formatter that applies to val, from the i-th on
RECURSIVE firstFormatter(_, _, _)
firstFormatter(i, val, n) ==
    IF i > Len(formatters) \/ tryFormatter(formatters[i], val, n).ok THEN i
    ELSE firstFormatter(i + 1, val, n)

\* whether formatValue hands val on to chunkString
chunksBy(name, val, n) ==
    \/ name = "tryLeadingTrailingSpaces"
    \/ /\ name = "tryQuotedDefault"
       /\ \/ hasSpecialChars(val)
          \/ n > 0 /\ Len(quoteAndEscapeValue(val)) > n

chunks(val, n) ==
    /\ firstFormatter(1, val, n) <= Len(formatters)
    /\ chunksBy(formatters[firstFormatter(1, val, n)], val, n)

\* chunkString up to its loop: s gets its quotes, and n <= 0 returns at once
chunkStringEnter(val, s, n) ==
    [op |-> "chunkString", val |-> val, s |-> s, n |-> n, remaining |-> s,
     lines |-> IF n <= 0 THEN <<s>> ELSE <<>>, done |-> n <= 0, lap |-> 0]

\* formatValue(val, n) reaches chunkString
ChunkStringCall(val, n) ==
    /\ chunks(val, n)
    /\ call' = chunkStringEnter(val,
                                IF HasPrefix(quoteAndEscapeValue(val), "\"")
                                THEN quoteAndEscapeValue(val)
                                ELSE "\"" \o quoteAndEscapeValue(val) \o "\"",
                                n)
    /\ UNCHANGED <<optVars, cfgVars, mutex, pc, op, ret, fgOut, expOut>>

\* one iteration of the loop of chunkString, or its end. The chunks are kept
\* for as many iterations as s has characters and one more (a loop that
\* consumes a character each time has ended by then); an iteration after
\* those appends its chunk like the others, which is recorded as a lap only.
chunkStringIterate(c, splitPos) ==
    IF splitPos = Len(c.remaining)
    THEN [c EXCEPT !.lines = Append(c.lines, c.remaining), !.done = TRUE]
    ELSE [c EXCEPT !.lines = IF Len(c.lines) <= Len(c.s)
                             THEN Append(c.lines, SubSeq(c.remaining, 1, splitPos) \o "\\")
                             ELSE c.lines,
                   !.lap = IF Len(c.lines) <= Len(c.s) THEN c.lap ELSE 1 - c.lap,
                   !.remaining = From(c.remaining, splitPos + 1)]

\* for len(remaining) > 0 { ... }: the loop runs for as long as its condition
\* holds
ChunkStringStep ==
    /\ call.op = "chunkString"
    /\ ~call.done
    /\ call' = IF Len(call.remaining) > 0
               THEN chunkStringIterate(call, findBestSplitPoint(call.remaining, call.n))
               ELSE [call EXCEPT !.done = TRUE]
    /\ UNCHANGED <<optVars, cfgVars, mutex, pc, op, ret, fgOut, expOut>>


\* ---- Renderer.Encode (internal/encoding/yaml) -------------------------------

\* an encoding.Encodeable: key and val are <<>> for the nil pointer; Children()
\* is nil exactly when children is empty
Encodeable(key, val, level, hdrs, inline, children) ==
    [key |-> key, val |-> val, indent |-> level, headers |-> hdrs, inline |-> inline,
     children |-> children]

\* Renderer.headers from the i-th header on
RECURSIVE headersFrom(_, _, _, _, _)
headersFrom(r, item, i, firstLineRendered, prependNewline) ==
    IF i > Len(item.headers) THEN ""
    ELSE IF ~firstLineRendered /\ TrimSpace(TrimSuffix(item.headers[i], "\n")) = ""
         THEN headersFrom(r, item, i + 1, firstLineRendered, prependNewline)
    ELSE (IF prependNewline THEN "\n" ELSE "")
         \o indent(r, item.indent) \o "# " \o TrimSuffix(item.headers[i], "\n") \o "\n"
         \o headersFrom(r, item, i + 1, TRUE, FALSE)

headers(r, item) == headersFrom(r, item, 1, FALSE, TRUE)

\* prepareLine once the value is formatted: [line, v, block]
prepareLineWith(item, line, f) ==
    [line |-> IF Len(item.inline) <= 1 /\ Len(f.lines) = 1 THEN line \o " " \o f.lines[1]
              ELSE IF Len(f.lines) > 1 /\ f.style = "" THEN line \o " "
              ELSE line,
     v |-> f.lines, block |-> f.style]

prepareLineOf(r, item, line) ==
    prepareLineWith(item, line,
        IF item.val # <<>> \/ item.children = <<>>
        THEN formatValue(item.val, maxLineLength(r, Len(line) - 1))
        ELSE Formatted(<<>>, ""))

prepareLine(r, item) == prepareLineOf(r, item, keyLine(r, item.indent, item.key))

writeMainLine(r, line, inline, block) ==
    line
    \o (IF Len(inline) = 1
        THEN Repeat(" ", commentSpaces(r, line)) \o "# " \o inline[1] ELSE "")
    \o (IF Len(inline) = 0 /\ block # "" THEN " " \o block ELSE "")
    \o "\n"

\* the value lines of writeMultilineValue from the i-th on: the last line of
\* a "|" block gets no newline
RECURSIVE valueLines(_, _, _, _)
valueLines(left, v, block, i) ==
    IF i > Len(v) THEN ""
    ELSE left \o v[i] \o (IF block # "|" \/ i # Len(v) THEN "\n" ELSE "")
         \o valueLines(left, v, block, i + 1)

writeMultilineValue(r, left, item, inline, v, block) ==
    IF Len(inline) > 1 \/ Len(v) > 1
    THEN (IF Len(inline) > 0 /\ block # "" THEN left \o block \o "\n" ELSE "")
         \o valueLines(left, formatValue(item.val, maxLineLength(r, Len(left))).lines, block, 1)
    ELSE ""

RECURSIVE commentLines(_, _, _)
commentLines(left, inline, i) ==
    IF i > Len(inline) THEN ""
    ELSE left \o "# " \o inline[i] \o "\n" \o commentLines(left, inline, i + 1)

writeAdditionalContentAt(r, left, item, inline, v, block) ==
    (IF Len(inline) > 1 THEN commentLines(left, inline, 1) ELSE "")
    \o writeMultilineValue(r, left, item, inline, v, block)

writeAdditionalContent(r, item, inline, v, block) ==
    writeAdditionalContentAt(r, indent(r, item.indent + 1), item, inline, v, block)

\* Renderer.node once the line is prepared
nodeOf(r, item, p) ==
    (IF item.indent >= 0 THEN writeMainLine(r, p.line, item.inline, p.block) ELSE "")
    \o writeAdditionalContent(r, item, item.inline, p.v, p.block)

nodeText(s) == IF TrimSpace(s) # "" THEN s ELSE ""

node(r, item) == nodeText(nodeOf(r, item, prepareLine(r, item)))

\* sort.Sort on the children: by key, a nil key first
keyLess(x, y) ==
    IF x.key = <<>> THEN y.key # <<>>
    ELSE y.key # <<>> /\ StringLess(x.key[1], y.key[1])

RECURSIVE insertEncodeable(_, _)
insertEncodeable(x, sorted) ==
    IF sorted = <<>> THEN <<x>>
    ELSE IF keyLess(x, sorted[Len(sorted)])
         THEN Append(insertEncodeable(x, SubSeq(sorted, 1, Len(sorted) - 1)), sorted[Len(sorted)])
    ELSE Append(sorted, x)

RECURSIVE sortEncodeables(_)
sortEncodeables(items) ==
    IF items = <<>> THEN <<>>
    ELSE insertEncodeable(items[Len(items)], sortEncodeables(SubSeq(items, 1, Len(items) - 1)))

\* Renderer.encode: what it writes, node by node in the order written
RECURSIVE encode(_, _)
RECURSIVE encodeAll(_, _, _)
encodeAll(r, items, i) ==
    IF i > Len(items) THEN <<>>
    ELSE encode(r, items[i]) \o encodeAll(r, items, i + 1)

encode(r, item) ==
    <<headers(r, item) \o node(r, item)>> \o encodeAll(r, sortEncodeables(item.children), 1)

RECURSIVE Concat(_)
Concat(texts) == IF texts = <<>> THEN "" ELSE Head(texts) \o Concat(Tail(texts))

\* Renderer.Encode from what encode wrote: the closing newline, and no blank
\* line after the document start
encodeText(s) ==
    IF HasPrefix(s, "---\n\n") THEN "---" \o TrimPrefix(s, "---\n") ELSE s

Encode(r, item) == encodeText("---\n" \o Concat(encode(r, item)) \o "\n")

EncodeCall(r, item) ==
    /\ call' = [op |-> "Encode", r |-> r, item |-> item, nodes |-> encode(r, item),
                out |-> Encode(r, item)]
    /\ UNCHANGED <<optVars, cfgVars, mutex, pc, op, ret, fgOut, expOut>>


\* ---- specifications -------------------------------------------------------

NoReturn == [op |-> "none", err |-> "nil", out |-> NoOutput, exit |-> "none"]

\* no Marshal or Unmarshal call was recorded yet
NoCall == [op |-> "none"]

\* a Config as New leaves it when it was given DefaultMarshalOptions(mo...)
\* and DefaultUnmarshalOptions(uo...) and no other option
NewConfig(mo, uo) ==
    /\ defaults = <<>>
    /\ values = <<>>
    /\ filegroups = <<>>
    /\ expansions = <<>>
    /\ marshalOptions = mo
    /\ unmarshalOptions = uo
    /\ tree = EmptyObject
    /\ compiledAt = 0
    /\ records = <<>>
    /\ declared = <<>>
    /\ mutex = 0
    /\ pc = [t \in Threads |-> "idle"]
    /\ op = [t \in Threads |-> "none"]
    /\ ret = [t \in Threads |-> NoReturn]
    /\ fgOut = [fgs |-> <<>>, out |-> filegroupsToRecords(<<>>)]
    /\ expOut = [in |-> EmptyObject, max |-> 0, exps |-> <<>>,
                 out |-> expandTree(EmptyObject, 0, <<>>)]
    /\ call = NoCall

\* a Config as New leaves it, before any option is applied
InitConfig == NewConfig(<<>>, <<>>)

\* the calls of one goroutine on the Config
Compile(t) == CompileLock(t) \/ CompileBody(t)

MarshalCallBy(t) ==
    \/ MarshalLock(t)
    \/ /\ \E c \in MarshalCalls : MarshalBody(t, c.opts, c.unifiedFails, c.encodeFails)
       /\ UNCHANGED call

UnmarshalCallBy(t) ==
    \/ UnmarshalLock(t)
    \/ /\ \E c \in UnmarshalCalls :
             UnmarshalBody(t, c.key, c.opts, c.decodeFails, c.validatorFails)
       /\ UNCHANGED call

\* Goroutines calling Compile, Marshal and Unmarshal on one Config whose
\* records were given to New.
ConfigChoices ==
    {[defaults |-> <<BufferRecord("9.json", "{a:2,b:2}")>>,
      values |-> <<BufferRecord("10.json", "{a:1}")>>],
     [defaults |-> <<>>,
      values |-> <<BufferRecord("9.json", "{a:[1,2,3]}"), BufferRecord("10.json", "{a:{x:1}}")>>],
     [defaults |-> <<>>, values |-> <<>>]}

Init ==
    /\ InitConfig
    /\ sorter = "natural"
    /\ expMax = 1

Configure ==
    /\ defaults = <<>> /\ values = <<>> /\ compiledAt = 0
    /\ \A t \in Threads : pc[t] = "idle" /\ op[t] = "none"
    /\ \E c \in ConfigChoices :
          /\ Len(c.defaults) + Len(c.values) > 0
          /\ defaults' = c.defaults
          /\ values' = c.values
          /\ declared' = [i \in DOMAIN c.defaults |->
                              Declared(c.defaults[i].name, c.defaults[i].buf, TRUE)]
                          \o [i \in DOMAIN c.values |->
                                 Declared(c.values[i].name, c.values[i].buf, FALSE)]
    /\ UNCHANGED <<sorter, filegroups, expansions, expMax, marshalOptions, unmarshalOptions>>
    /\ UNCHANGED <<cfgVars, mutex, pc, op, ret, fgOut, expOut, call>>

Next ==
    \/ Configure
    \/ \E t \in Threads : Compile(t)
    \/ \E t \in Threads : MarshalCallBy(t)
    \/ \E t \in Threads : UnmarshalCallBy(t)
    \/ \E t \in Threads : Return(t)

Spec == Init /\ [][Next]_vars

\* Options applied one at a time and Compile called in between, by one goroutine.
InitMerge ==
    /\ InitConfig
    /\ sorter \in Sorters
    /\ expMax = 1

NextMerge ==
    \/ \E recordName \in RecordNames \cup {""}, in \in Buffers, opts \in BufferOptionLists :
          AddBuffer(recordName, in, opts)
    \/ Compile(1)
    \/ Return(1)

SpecMerge == InitMerge /\ [][NextMerge]_vars

\* Filegroups declared one at a time and collected into records.
InitFiles ==
    /\ InitConfig
    /\ sorter = "natural"
    /\ expMax = 1

NextFiles ==
    \/ \E g \in FilegroupChoices : AddFilegroup(g)
    \/ CollectRecords

SpecFiles == InitFiles /\ [][NextFiles]_vars

\* Expand directives declared one at a time and expandTree called on a tree.
InitExpand ==
    /\ InitConfig
    /\ sorter = "natural"
    /\ expMax = 1

\* an Expand option applied, and what its apply returned recorded
ExpandRecorded ==
    \E exp \in ExpandChoices :
        /\ ExpandApply(exp)
        /\ call' = [op |-> "Expand", args |-> exp, err |-> apply(exp, expansions).err]

NextExpand ==
    \/ ExpandRecorded
    \/ \E b \in ExpandBuffers, max \in 0..MaxExpMax : ExpandTreeCall(b, max)

SpecExpand == InitExpand /\ [][NextExpand]_vars

\* Compile on a Config holding one buffer with placeholders, after the Expand
\* directives were declared.
InitExpandCompile ==
    /\ InitConfig
    /\ sorter = "natural"
    /\ expMax \in 1..MaxExpMax

NextExpandCompile ==
    \/ (\E exp \in ExpandChoices : ExpandApply(exp)) /\ UNCHANGED call
    \/ \E b \in ExpandBuffers : values = <<>> /\ AddBuffer("9.json", b, <<>>)
    \/ Compile(1)
    \/ Return(1)

SpecExpandCompile == InitExpandCompile /\ [][NextExpandCompile]_vars

\* One goroutine calling Compile, until a Compile has succeeded, and Marshal
\* and Unmarshal on a Config that was given default marshal and unmarshal
\* options; the arguments of each Marshal and Unmarshal call are recorded.
DefaultOptionChoices ==
    {[marshal |-> <<>>, unmarshal |-> <<>>],
     [marshal |-> <<Opt("WithError", TRUE)>>, unmarshal |-> <<Opt("WithError", TRUE)>>],
     [marshal |-> <<Opt("RedactSecrets", TRUE)>>, unmarshal |-> <<Opt("Optional", TRUE)>>],
     [marshal |-> <<Opt("OnlyDefaults", TRUE)>>,
      unmarshal |-> <<Opt("Optional", TRUE), Opt("Required", TRUE)>>],
     [marshal |-> <<>>, unmarshal |-> <<Opt("Required", FALSE)>>]}

\* the buffers the goroutine adds, before or after a Compile
CallBuffers ==
    {[name |-> "9.json", buf |-> "{a:2,b:2}", opts |-> <<TRUE>>],
     [name |-> "10.json", buf |-> "{a:1}", opts |-> <<>>],
     [name |-> "10.json", buf |-> "{a:[1,2,3]}", opts |-> <<>>]}

\* further Unmarshal calls of the goroutine: Optional overridden by a later
\* Required, and Optional on a key whose fetch fails for another reason than
\* not-found
OptionalCalls ==
    {UnmarshalCall("zz", <<Opt("Optional", TRUE), Opt("Required", TRUE)>>, FALSE, FALSE),
     UnmarshalCall("a.x", <<Opt("Optional", TRUE)>>, FALSE, FALSE)}

MarshalRecorded ==
    \E c \in MarshalCalls :
        /\ MarshalBody(1, c.opts, c.unifiedFails, c.encodeFails)
        /\ call' = [op |-> "Marshal", args |-> c]

UnmarshalRecorded ==
    \E c \in UnmarshalCalls \cup OptionalCalls :
        /\ UnmarshalBody(1, c.key, c.opts, c.decodeFails, c.validatorFails)
        /\ call' = [op |-> "Unmarshal", args |-> c]

InitCalls ==
    /\ \E d \in DefaultOptionChoices : NewConfig(d.marshal, d.unmarshal)
    /\ sorter = "natural"
    /\ expMax = 1

NextCalls ==
    \/ \E b \in CallBuffers : AddBuffer(b.name, b.buf, b.opts)
    \/ (compiledAt = 0 \/ pc[1] = "locked") /\ Compile(1)
    \/ MarshalLock(1)
    \/ MarshalRecorded
    \/ UnmarshalLock(1)
    \/ UnmarshalRecorded
    \/ Return(1)

SpecCalls == InitCalls /\ [][NextCalls]_vars


\* calcUnified applied once to a documentation object and a compiled tree.
MaxElems == 2
MaxNest == 2

StringDoc == Doc("string", EmptyMap)
Leaf == Scalar(<<"v">>, <<>>)

One(k, x) == [n \in {k} |-> x]
Two(k, x, l, y) == [n \in {k, l} |-> IF n = k THEN x ELSE y]

BaseDocs ==
    {NilDoc, StringDoc, Doc("array", EmptyMap),
     Doc("array", One(NAME_ARRAY, StringDoc)),
     Doc("array", One(NAME_ARRAY, Doc("struct", One("a", StringDoc)))),
     Doc("struct", Two("a", StringDoc, "b", StringDoc)),
     Doc("struct", One("a", Doc("array", EmptyMap))),
     Doc("struct", Two(NAME_MAP_KEY, StringDoc, NAME_MAP_VALUE, StringDoc)),
     Doc("struct", One(NAME_ARRAY, Doc("", EmptyMap))),
     Doc("struct", One(NAME_EMBEDDED, Doc("", EmptyMap)))}

BaseElems == {Leaf, MapOf(One("a", Leaf), <<>>)}

BaseObjects ==
    {NilObject, Leaf,
     MapOf(One("a", Leaf), <<>>),
     MapOf(Two("a", Leaf, "b", Leaf), <<>>),
     MapOf(One("b", ArrayOf(<<Leaf>>, <<>>)), <<>>),
     MapOf(Two("1", Leaf, NAME_MAP_KEY, Leaf), <<>>),
     ArrayAndMap(<<Leaf>>, One("a", Leaf)),
     ArrayOf([i \in 1..11 |-> Leaf], <<>>)}
    \cup {ArrayOf(elems, <<>>) : elems \in UNION {[1..n -> BaseElems] : n \in 1..MaxElems}}

Wrappers == {"key", "first", "later", "afterReserved", "beforeReserved", "underMapValue"}

\* a doc, or a compiled object, that can be held as a child
ChildDoc(d) == IF d = NilDoc THEN StringDoc ELSE d
ChildObject(c) == IF c = NilObject THEN EmptyObject ELSE c

\* the pair p one level further down: below key "a", as the first or a later
\* element of an array, next to a reserved name that sorts before or after its
\* key, or below the reserved map-value name
Wrap(w, p) ==
    CASE w = "key" ->
           [doc |-> IF p.doc = NilDoc THEN NilDoc ELSE Doc("struct", One("a", p.doc)),
            compiled |-> IF p.compiled = NilObject THEN NilObject
                         ELSE MapOf(One("a", p.compiled), <<>>)]
      [] w = "first" ->
           [doc |-> IF p.doc = NilDoc THEN Doc("array", EmptyMap)
                    ELSE Doc("array", One(NAME_ARRAY, p.doc)),
            compiled |-> ArrayOf(<<ChildObject(p.compiled)>>, <<>>)]
      [] w = "later" ->
           [doc |-> Doc("array", One(NAME_ARRAY, StringDoc)),
            compiled |-> ArrayOf(<<Leaf, ChildObject(p.compiled)>>, <<>>)]
      [] w = "afterReserved" ->
           [doc |-> Doc("struct", Two("a", ChildDoc(p.doc), NAME_ARRAY, StringDoc)),
            compiled |-> MapOf(One("a", ChildObject(p.compiled)), <<>>)]
      [] w = "beforeReserved" ->
           [doc |-> Doc("struct", One("1", ChildDoc(p.doc))),
            compiled |-> MapOf(Two("1", ChildObject(p.compiled), NAME_EMBEDDED, Leaf), <<>>)]
      [] OTHER ->
           [doc |-> Doc("struct", One(NAME_MAP_VALUE, ChildDoc(p.doc))),
            compiled |-> MapOf(Two(NAME_MAP_VALUE, ChildObject(p.compiled), "a", Leaf), <<>>)]

RECURSIVE Nested(_)
Nested(n) ==
    IF n = 0 THEN {[doc |-> d, compiled |-> c] : d \in BaseDocs, c \in BaseObjects}
    ELSE Nested(n - 1) \cup {Wrap(w, p) : w \in Wrappers, p \in Nested(n - 1)}

UnifiedInputs == Nested(MaxNest)

InitUnified ==
    /\ InitConfig
    /\ sorter = "natural"
    /\ expMax = 1

\* calcUnified keeps no state between calls: one call in a run
NextUnified ==
    /\ call = NoCall
    /\ \E p \in UnifiedInputs : CalcUnifiedCall(p.doc, p.compiled)

SpecUnified == InitUnified /\ [][NextUnified]_vars


\* unified.Headers applied once to a node.
MaxDocLen == 3

\* the strings of at most n characters over an alphabet
RECURSIVE Strings(_, _)
Strings(alphabet, n) ==
    IF n = 0 THEN {""}
    ELSE Strings(alphabet, n - 1)
         \cup {s \o c : s \in Strings(alphabet, n - 1), c \in alphabet}

HeaderDocs ==
    {NilDoc} \cup {DocWith(type, EmptyMap, text, deprecated) :
                      type \in {"string", "int", "array", TYPE_ROOT},
                      text \in Strings({"x", "\n"}, MaxDocLen),
                      deprecated \in BOOLEAN}

HeaderNodes ==
    {[NewUnified(NilKey, 0, d) EXCEPT !.preset = p] :
        d \in HeaderDocs, p \in {NilPreset, Preset("d"), Preset("42")}}

InitHeaders ==
    /\ InitConfig
    /\ sorter = "natural"
    /\ expMax = 1

NextHeaders ==
    /\ call = NoCall
    /\ \E u \in HeaderNodes : HeadersCall(u)

SpecHeaders == InitHeaders /\ [][NextHeaders]_vars


\* unified.childKeys applied once to a node with up to MaxKeys children.
MaxKeys == 3

ChildKeyNames == {"1", "1.0", "2", "10", "NaN", "a", "b"}

\* the orders a range over a map with the keys S can give: every one
RECURSIVE RangeOrders(_)
RangeOrders(S) ==
    IF S = {} THEN {<<>>}
    ELSE UNION {{<<k>> \o rest : rest \in RangeOrders(S \ {k})} : k \in S}

InitChildKeys ==
    /\ InitConfig
    /\ sorter = "natural"
    /\ expMax = 1

NextChildKeys ==
    /\ call = NoCall
    /\ \E S \in SUBSET ChildKeyNames :
           /\ Cardinality(S) <= MaxKeys
           /\ \E keys \in RangeOrders(S) : ChildKeysCall(keys)

SpecChildKeys == InitChildKeys /\ [][NextChildKeys]_vars


\* formatValue applied once to a value of up to MaxValLen characters with a
\* maximum line length of 1..MaxLine or none.
MaxValLen == 4
MaxLine == 4

ValueChars == {"a", "1", " ", "\n", "\t", "'"}

FormatValues == {<<>>} \cup {<<s>> : s \in Strings(ValueChars, MaxValLen)}

LineLengths == 1..MaxLine \cup {MaxInt}

InitFormat ==
    /\ InitConfig
    /\ sorter = "natural"
    /\ expMax = 1

NextFormat ==
    /\ call = NoCall
    /\ \E v \in FormatValues, n \in LineLengths : FormatValueCall(v, n)

SpecFormat == InitFormat /\ [][NextFormat]_vars


\* One node rendered by the encoder FormatAsYAML sets up, at a level of up to
\* MaxLevel.
MaxLevel == 2

LineLengthOptions == {-1, 0, 4, 80}
CommentColumnOptions == {-1, 0, 8, 80}
SpacesOptions == {-1, 0, 2, 4}

InitYAMLOptions ==
    /\ InitConfig
    /\ sorter = "natural"
    /\ expMax = 1

NextYAMLOptions ==
    /\ call = NoCall
    /\ \E m \in LineLengthOptions, t \in CommentColumnOptions, s \in SpacesOptions,
          level \in 0..MaxLevel, val \in {"a a", "a a a a a"} :
           FormatAsYAMLCall(FormatAsYAMLOptions(m, t, s), level, val)

SpecYAMLOptions == InitYAMLOptions /\ [][NextYAMLOptions]_vars


\* formatValue applied once to a value that it hands on to chunkString, whose
\* loop then runs; the goroutine that runs the loop keeps running it.
ChunkChars == {"a", " ", "'"}

InitChunk ==
    /\ InitConfig
    /\ sorter = "natural"
    /\ expMax = 1

NextChunk ==
    \/ /\ call = NoCall
       /\ \E val \in Strings(ChunkChars, MaxValLen), n \in LineLengths : ChunkStringCall(val, n)
    \/ ChunkStringStep

SpecChunk == InitChunk /\ [][NextChunk]_vars /\ WF_vars(ChunkStringStep)


\* Filegroups with several paths, some of them missing, declared one at a time
\* and collected into records.
MissingPathChoices ==
    {Filegroup("local", <<"gone.json", "1.json">>, FALSE, TRUE, "", FALSE),
     Filegroup("local", <<"1.json", "gone.json">>, FALSE, TRUE, "", FALSE),
     Filegroup("local", <<"./dir", "gone.json">>, FALSE, FALSE, "", TRUE),
     Filegroup("none", <<"*.json", "example.json">>, FALSE, TRUE, "", FALSE),
     Filegroup("local", <<"1.json", "example.json">>, FALSE, TRUE, "", FALSE),
     Filegroup("local", <<"1.json">>, FALSE, FALSE, "", FALSE),
     Filegroup("home", <<"example.json">>, FALSE, FALSE, "", FALSE),
     Filegroup("local", <<"gone.json", "1.json">>, TRUE, FALSE, "", FALSE)}

NextMissingPath ==
    \/ \E g \in MissingPathChoices : AddFilegroup(g)
    \/ CollectRecords

SpecMissingPath == InitFiles /\ [][NextMissingPath]_vars


\* Renderer.Encode applied once to a node with up to MaxChildren children.
MaxChildren == 2

EncodeValues == {<<>>, <<"v">>, <<"x\ny">>, <<"x\ny\n">>, <<"x\n">>}
EncodeHeaders == {<<>>, <<"h">>}
EncodeInlines == {<<>>, <<"c">>}
EncodeRenderers == {Renderer(0, 0, 0), Renderer(0, 8, 4)}

\* the children, handed over in descending key order
ChildItems(n) ==
    {[i \in 1..n |-> Encodeable(<<Itoa(n + 1 - i)>>, shape[i][1], 1, shape[i][2], <<>>, <<>>)] :
        shape \in [1..n -> EncodeValues \X EncodeHeaders]}

EncodeItems ==
    {Encodeable(<<"a">>, val, 0, hdrs, inline, children) :
        val \in EncodeValues, hdrs \in EncodeHeaders, inline \in EncodeInlines,
        children \in UNION {ChildItems(n) : n \in 0..MaxChildren}}

InitEncode ==
    /\ InitConfig
    /\ sorter = "natural"
    /\ expMax = 1

NextEncode ==
    /\ call = NoCall
    /\ \E r \in EncodeRenderers, item \in EncodeItems : EncodeCall(r, item)

SpecEncode == InitEncode /\ [][NextEncode]_vars


\* One goroutine calling Compile, until a Compile has succeeded, and Marshal
\* with and without IncludeDocumentation, FormatAs and IncludeOrigins, on a
\* Config whose default marshal options may hold them too; the arguments of
\* each Marshal call are recorded.
DocumentedDefaults ==
    {<<>>, <<Opt("IncludeDocumentation", TRUE)>>, <<FormatAs("toml")>>,
     <<Opt("IncludeOrigins", TRUE)>>}

DocumentedOptions ==
    {<<>>,
     <<Opt("IncludeDocumentation", TRUE)>>,
     <<Opt("IncludeDocumentation", FALSE)>>,
     <<FormatAs("toml")>>,
     <<FormatAs("json")>>,
     <<Opt("IncludeOrigins", TRUE)>>,
     <<Opt("IncludeDocumentation", TRUE), FormatAs("toml")>>,
     <<Opt("IncludeDocumentation", TRUE), FormatAs("json")>>,
     <<FormatAs("toml"), Opt("IncludeDocumentation", TRUE)>>,
     <<Opt("IncludeDocumentation", TRUE), Opt("IncludeOrigins", TRUE)>>,
     <<Opt("IncludeDocumentation", TRUE), FormatAs("toml"), Opt("IncludeOrigins", TRUE)>>,
     <<Opt("IncludeDocumentation", TRUE), Opt("RedactSecrets", TRUE), FormatAs("toml")>>}

DocumentedCalls ==
    {MarshalCall(opts, FALSE, FALSE) : opts \in DocumentedOptions}
    \cup {MarshalCall(<<Opt("IncludeDocumentation", TRUE), FormatAs("toml")>>, TRUE, FALSE),
          MarshalCall(<<Opt("IncludeDocumentation", TRUE), FormatAs("toml")>>, FALSE, TRUE)}

DocumentedRecorded ==
    \E c \in DocumentedCalls :
        /\ MarshalBody(1, c.opts, c.unifiedFails, c.encodeFails)
        /\ call' = [op |-> "Marshal", args |-> c]

InitDocumented ==
    /\ \E mo \in DocumentedDefaults : NewConfig(mo, <<>>)
    /\ sorter = "natural"
    /\ expMax = 1

NextDocumented ==
    \/ \E b \in CallBuffers : AddBuffer(b.name, b.buf, b.opts)
    \/ (compiledAt = 0 \/ pc[1] = "locked") /\ Compile(1)
    \/ MarshalLock(1)
    \/ DocumentedRecorded
    \/ Return(1)

SpecDocumented == InitDocumented /\ [][NextDocumented]_vars


\* ---- properties -----------------------------------------------------------

\* the key paths of the model's trees
KeyPaths == {<<"a">>, <<"b">>, <<"a", "x">>}

RECURSIVE Defines(_, _)
Defines(obj, path) ==
    \/ path = <<>>
    \/ /\ obj.Kind = "map"
       /\ Head(path) \in DOMAIN obj.Map
       /\ Defines(obj.Map[Head(path)], Tail(path))

RECURSIVE NodeAt(_, _)
NodeAt(obj, path) ==
    IF path = <<>> THEN obj ELSE NodeAt(obj.Map[Head(path)], Tail(path))

\* a Compile has just stored its result: it succeeded and has not returned yet,
\* so the options are the ones it compiled
JustCompiled == \E t \in Threads : pc[t] = "ret" /\ ret[t].exit = "compiled"

\* the records Compile merges, in merge order
MergedRecords == MergeOrder(defaults, filegroupsToRecords(filegroups).rv \o values)
MergedTree(i) == RecordTree(MergedRecords[i]).tree

\* the positions in merge order of the records that define the key path
Definers(path) == {i \in DOMAIN MergedRecords : Defines(MergedTree(i), path)}

LastDefiner(path) == CHOOSE i \in Definers(path) : \A j \in Definers(path) : j <= i

\* the names of the records at the given positions, in merge order
RECURSIVE NamesOf(_, _)
NamesOf(recs, positions) ==
    IF recs = <<>> THEN <<>>
    ELSE NamesOf(SubSeq(recs, 1, Len(recs) - 1), positions)
         \o (IF Len(recs) \in positions THEN <<recs[Len(recs)].name>> ELSE <<>>)

RECURSIVE GroupRecords(_, _)
GroupRecords(fgs, n) ==
    IF n = 0 THEN <<>> ELSE GroupRecords(fgs, n - 1) \o toRecords(fgs[n]).list

\* group i carries the halt flag and yields at least one record
HaltsAt(fgs, i) == fgs[i].halt /\ Len(toRecords(fgs[i]).list) > 0

\* group i ends the call with an error
FailsAt(fgs, i) ==
    /\ toRecords(fgs[i]).err # "nil"
    /\ toRecords(fgs[i]).err # "ErrNotExist" \/ fgs[i].exactFile

\* C2: filegroupsToRecords reads the filegroups in declaration order and
\* stops as soon as a group carrying the halt flag yields at least one record:
\* no group after such a group is read (a later exact-file group included),
\* the result of a call that returns no error holds exactly the records of the
\* groups up to and including it, and a halt group that yields no record does
\* not stop the call (only a productive halt group or an error ends it before
\* the last group).
C2_HaltStops ==
    LET fgs == fgOut.fgs
        out == fgOut.out
        n == Len(out.read)
    IN /\ out.read = [i \in 1..n |-> i]
       /\ \A i \in 1..(n - 1) : ~HaltsAt(fgs, i)
       /\ n < Len(fgs) => HaltsAt(fgs, n) \/ FailsAt(fgs, n)
       /\ Len(fgs) > 0 => n > 0
       /\ out.err = "nil" => out.rv = GroupRecords(fgs, n)

\* a call where a halt group without records was passed over, the next halt
\* group yielded a record, and the exact-file group after it, whose file is
\* missing, was never read
C2_Witness ==
    /\ Len(fgOut.fgs) = 3
    /\ fgOut.fgs[1].halt /\ toRecords(fgOut.fgs[1]).list = <<>>
    /\ HaltsAt(fgOut.fgs, 2)
    /\ fgOut.fgs[3].exactFile /\ toRecords(fgOut.fgs[3]).err = "ErrNotExist"
    /\ fgOut.out.err = "nil"
    /\ fgOut.out.read = <<1, 2>>
    /\ Len(fgOut.out.rv) > 0

\* the ToExpanded calls of the last expandTree call follow the schedule: call
\* k is directive ((k-1) mod n)+1 of pass (k-1) div n
LogScheduled(log, n) ==
    \A k \in DOMAIN log :
        /\ log[k].pass = (k - 1) \div n
        /\ log[k].directive = ((k - 1) % n) + 1

\* each call is handed the tree the call before it produced
LogChained(log, in) ==
    \A k \in DOMAIN log :
        log[k].input = IF k = 1 THEN in ELSE log[k - 1].output

\* pass p applied all n directives
PassComplete(log, n, p) == (p + 1) * n <= Len(log)

\* some lookup succeeded in the complete pass p
PassChanged(log, n, p) == \E j \in 1..n : log[p * n + j].found

\* after every complete pass that returned no error, another pass starts
\* exactly when the pass changed something and fewer than max passes have run
LogContinues(log, n, max) ==
    /\ Len(log) > 0 <=> max > 0
    /\ \A p \in 0..Len(log) :
          (PassComplete(log, n, p) /\ log[(p + 1) * n].err = "nil")
             => (Len(log) > (p + 1) * n <=> (PassChanged(log, n, p) /\ p + 1 < max))

\* C3 (amended): expandTree runs passes over the whole directive list: each
\* pass applies the directives in declaration order, each to the tree the one
\* before it produced, and applies every one of them exactly once unless a
\* directive's expansion returns an error, which ends the call at once with
\* that error; after a pass that ran to its end another full pass follows
\* exactly when that pass changed something (some provider lookup succeeded)
\* and fewer than max passes have run.
C3_PassStructure ==
    LET log == expOut.out.log
        n == Len(expOut.exps)
    IN IF n = 0 THEN log = <<>> /\ expOut.out.err = "nil" /\ expOut.out.obj = expOut.in
       ELSE /\ LogScheduled(log, n)
            /\ LogChained(log, expOut.in)
            /\ \A k \in DOMAIN log : log[k].err # "nil" => k = Len(log)
            /\ expOut.out.err = (IF log = <<>> THEN "nil" ELSE log[Len(log)].err)
            /\ expOut.out.err = "nil" =>
                  /\ Len(log) % n = 0
                  /\ expOut.out.obj = (IF log = <<>> THEN expOut.in ELSE log[Len(log)].output)
            /\ LogContinues(log, n, expOut.max)

\* two directives, three passes: the first directive's output holds the second
\* one's placeholder and the second one's output the first one's again
C3_Witness ==
    /\ Len(expOut.exps) = 2
    /\ expOut.out.err = "nil"
    /\ Len(expOut.out.log) = 6
    /\ expOut.out.log[1].found /\ expOut.out.log[2].found /\ expOut.out.log[3].found
    /\ ~expOut.out.log[5].found /\ ~expOut.out.log[6].found
    /\ ~expOut.out.changed

\* C3 as stated: in each pass every directive is applied exactly once, in
\* declaration order, each to the tree produced by the directive before it,
\* and another full pass follows exactly when the pass just finished changed
\* something and fewer than max passes have run.
C3_EveryDirectiveEachPass ==
    LET log == expOut.out.log
        n == Len(expOut.exps)
    IN n > 0 =>
          /\ LogScheduled(log, n)
          /\ LogChained(log, expOut.in)
          /\ Len(log) % n = 0
          /\ LogContinues(log, n, expOut.max)

\* the Config holds a buffer whose value is ${S}, and a directive whose
\* provider replaces S by a text that holds ${S} again
SelfReferential ==
    /\ \E i \in DOMAIN values : values[i].buf = "{a:${S}}"
    /\ \E j \in DOMAIN expansions : Expands(expansions[j], "${S}")

\* the ToExpanded calls expandTree makes for the Config's only buffer
SelfReferentialLog ==
    expandTree(Decode(values[1].name, values[1].buf).tree, expMax, expansions).log

\* C4: a Compile of a Config with a self-referential placeholder ends, after
\* at most max passes over the directives, with the expansion-did-not-converge
\* error, and stores no tree: the placeholder is never returned as a
\* converged tree.
C4_SelfReferenceFails ==
    [][(pc[1] = "locked" /\ op[1] = "Compile" /\ pc'[1] = "ret" /\ SelfReferential)
          => /\ ret'[1].err = "ErrExpansionNotConverged"
             /\ ret'[1].exit = "compileError"
             /\ UNCHANGED <<tree, compiledAt>>
             /\ Len(SelfReferentialLog) <= expMax * Len(expansions)
             /\ Len(SelfReferentialLog) > 0]_vars

\* a Compile of such a Config has returned
C4_Witness ==
    /\ SelfReferential
    /\ pc[1] = "ret"
    /\ ret[1].op = "Compile"
    /\ ret[1].err = "ErrExpansionNotConverged"
    /\ compiledAt = 0

\* goroutine t is inside a call: past c.mutex.Lock() and not yet past the
\* deferred c.mutex.Unlock()
InCall(t) == pc[t] \in {"locked", "ret"}

\* C5: on one Config the bodies of Compile, Unmarshal and Marshal never
\* overlap: at most one goroutine is inside a call at any time, and it is the
\* one that holds the Config mutex, so nobody reads the tree while Compile is
\* between taking the mutex and returning.
C5_BodiesNeverOverlap ==
    /\ \A t1, t2 \in Threads : (InCall(t1) /\ InCall(t2)) => t1 = t2
    /\ \A t \in Threads : InCall(t) => mutex = t

\* a goroutine is inside Unmarshal after another one compiled the Config and
\* went on to call Marshal, which has not got the mutex
C5_Witness ==
    /\ compiledAt > 0
    /\ \E t1, t2 \in Threads :
          /\ t1 # t2
          /\ pc[t1] = "ret" /\ op[t1] = "Unmarshal" /\ ret[t1].exit = "decoded"
          /\ pc[t2] = "idle" /\ ret[t2].op = "Compile"
          /\ mutex = t1

\* C6: every Marshal and Unmarshal call gives the mutex back whatever its
\* exit path: a goroutine that has returned from one does not hold the mutex,
\* the mutex is free whenever no goroutine is inside a call, and is held only
\* by a goroutine inside a call, so the next Lock() can always be granted.
C6_MutexReleased ==
    /\ \A t \in Threads :
          (pc[t] = "idle" /\ ret[t].op \in {"Marshal", "Unmarshal"}) => mutex # t
    /\ (\A t \in Threads : ~InCall(t)) => mutex = 0
    /\ mutex # 0 => InCall(mutex)

\* both goroutines are back from calls that ended in an error, one from
\* Unmarshal's validator and one from Marshal's encoder, and the mutex is free
C6_Witness ==
    /\ \A t \in Threads : pc[t] = "idle"
    /\ \E t1, t2 \in Threads :
          /\ ret[t1].op = "Unmarshal" /\ ret[t1].exit = "validatorError"
          /\ ret[t2].op = "Marshal" /\ ret[t2].exit = "encodeError"
    /\ mutex = 0

\* C7: a Compile that fails leaves the compiled tree and the compiled-at time
\* exactly as they were before the call, whatever the error.
C7_FailedCompileKeepsTree ==
    [][\A t \in Threads :
          (pc[t] = "locked" /\ op[t] = "Compile" /\ pc'[t] = "ret" /\ ret'[t].err # "nil")
             => UNCHANGED <<tree, compiledAt, records>>]_vars

\* a Compile has failed on a Config that an earlier Compile had given a tree
C7_Witness ==
    /\ compiledAt > 0
    /\ ~IsEmpty(tree)
    /\ pc[1] = "ret"
    /\ ret[1].op = "Compile"
    /\ ret[1].err = "ErrConflict"

IsDefault(d) == d.asDefault
IsValue(d) == ~d.asDefault

\* the records of history entries
DeclaredRecords(ds) == [i \in DOMAIN ds |-> BufferRecord(ds[i].name, ds[i].buf)]

\* the records given with AsDefault, in the order of their options, and the
\* records given without
DeclaredDefaults == DeclaredRecords(SelectSeq(declared, IsDefault))
DeclaredValues == DeclaredRecords(SelectSeq(declared, IsValue))

\* C8: the records given with AsDefault are merged before every value record
\* and in the order their options were declared, whatever their names and
\* the sorter; the value records follow in the sorter's order.
C8_DefaultsFirst ==
    JustCompiled =>
       /\ records = Names(DeclaredDefaults) \o Names(SortStable(DeclaredValues))
       /\ tree = mergeRecords(DeclaredDefaults \o SortStable(DeclaredValues), 1, EmptyObject).obj

\* a compiled Config whose default was declared after its value, under a
\* name the sorter puts after the value's: the default is merged first and
\* the value wins
C8_Witness ==
    /\ JustCompiled
    /\ Len(declared) = 2
    /\ ~declared[1].asDefault /\ declared[2].asDefault
    /\ SorterLess(declared[1].name, declared[2].name)
    /\ records = <<declared[2].name, declared[1].name>>
    /\ declared[1].buf = "{a:1}" /\ declared[2].buf = "{a:2,b:2}"
    /\ NodeAt(tree, <<"a">>).Value = <<"1">>

\* a Compile by goroutine t has stored its result, or failed, and has not
\* returned yet, so the options are the ones it compiled
CompileDone(t) == pc[t] = "ret" /\ ret[t].op = "Compile"

\* every record Compile is given decodes
AllDecode == \A i \in DOMAIN MergedRecords : RecordTree(MergedRecords[i]).err = "nil"

\* two of the records define the key path with different shapes
ShapesDiffer(path) ==
    \E i, j \in Definers(path) :
        NodeAt(MergedTree(i), path).Kind # NodeAt(MergedTree(j), path).Kind

\* C9: when two of the records a Compile merges define the same path with
\* different shapes (a map and an array, or either and a scalar), the merge
\* fails with the type-conflict error and no tree is stored: the merge neither
\* coerces one shape into the other nor keeps one of the two.
C9_ShapeConflictFails ==
    \A t \in Threads :
        (CompileDone(t) /\ AllDecode /\ \E path \in KeyPaths : ShapesDiffer(path))
           => /\ ret[t].err = "ErrConflict"
              /\ ret[t].exit = "compileError"

\* a Compile of a map and an array at the key a has failed
C9_Witness ==
    /\ CompileDone(1)
    /\ ret[1].err = "ErrConflict"
    /\ \E i, j \in Definers(<<"a">>) :
          /\ NodeAt(MergedTree(i), <<"a">>).Kind = "map"
          /\ NodeAt(MergedTree(j), <<"a">>).Kind = "array"

\* C10: when a Compile succeeds and more than one of its records defines an
\* array at a path, the compiled tree holds at that path the array of the
\* last of them in merge order, element for element and with that record's
\* origins alone: nothing of an earlier array is kept, appended or merged in.
C10_ArrayReplaced ==
    JustCompiled =>
        \A path \in KeyPaths :
            (/\ Cardinality(Definers(path)) > 1
             /\ \A i \in Definers(path) : NodeAt(MergedTree(i), path).Kind = "array")
               => /\ NodeAt(tree, path).Kind = "array"
                  /\ NodeAt(tree, path).Array = NodeAt(MergedTree(LastDefiner(path)), path).Array
                  /\ NodeAt(tree, path).Origins = NodeAt(MergedTree(LastDefiner(path)), path).Origins

\* the array [1,2,3] and then the array [9] were merged at the key a: the
\* tree holds [9]
C10_Witness ==
    /\ JustCompiled
    /\ Len(MergedRecords) = 2
    /\ MergedRecords[1].buf = "{a:[1,2,3]}"
    /\ MergedRecords[2].buf = "{a:[9]}"
    /\ Len(NodeAt(tree, <<"a">>).Array) = 1
    /\ NodeAt(tree, <<"a">>).Array[1].Value = <<"9">>

\* ---- record collection: errors ---------------------------------------------

\* path k of group g is a valid path the filesystem does not hold
MissingPath(g, k) ==
    /\ ValidPath(Clean(g.paths[k]))
    /\ Clean(g.paths[k]) \notin DOMAIN FS(g.fs)

\* path k of group g is a plain file of the filesystem
PlainFile(g, k) ==
    /\ ValidPath(Clean(g.paths[k]))
    /\ Clean(g.paths[k]) \in DOMAIN FS(g.fs)
    /\ FS(g.fs)[Clean(g.paths[k])].type = "file"

\* an exact-file group whose first path that is not a plain file is missing
ExactFileMissing(g) ==
    /\ g.exactFile
    /\ \E k \in DOMAIN g.paths :
          /\ MissingPath(g, k)
          /\ \A j \in 1..(k - 1) : PlainFile(g, j)

\* C11: when filegroupsToRecords reads an exact-file group (AddFile) that
\* names a file the filesystem does not hold, the call ends at that group with
\* ErrFileMissing, which is not the generic not-exist error, and returns no
\* records, whatever the groups before it yielded.
C11_ExactFileMissing ==
    LET fgs == fgOut.fgs
        out == fgOut.out
        n == Len(out.read)
    IN \A i \in 1..n :
          ExactFileMissing(fgs[i]) =>
              /\ i = n
              /\ out.err = "ErrFileMissing"
              /\ out.err # "ErrNotExist"
              /\ out.rv = <<>>

\* a group that yields a record, then an exact-file group whose file is
\* missing: the call returns ErrFileMissing and none of the records
C11_Witness ==
    /\ Len(fgOut.fgs) = 2
    /\ ~fgOut.fgs[1].halt
    /\ Len(toRecords(fgOut.fgs[1]).list) > 0
    /\ ExactFileMissing(fgOut.fgs[2])
    /\ fgOut.out.read = <<1, 2>>
    /\ fgOut.out.err = "ErrFileMissing"
    /\ fgOut.out.rv = <<>>

\* the paths group g opens while it enumerates: its literal paths and, for a
\* directory of a group that may walk, the entries below it
OpenedPaths(g) ==
    LET lit == {Clean(g.paths[k]) : k \in DOMAIN g.paths} \cap DOMAIN FS(g.fs)
    IN lit \cup {c \in DOMAIN FS(g.fs) :
                    \E d \in lit : /\ ~g.exactFile
                                   /\ \E k \in DOMAIN FS(g.fs)[d].children :
                                         FS(g.fs)[d].children[k] = c}

\* the filesystem errors group g meets: while enumerating (a path that is
\* missing, invalid or a bad pattern, a directory where a file must be, an
\* Open that fails) and when it opens an enumerated file to read it
Faults(g) ==
    ({OpenErr(FS(g.fs), p) : p \in OpenedPaths(g)}
        \cup {OpenLaterErr(FS(g.fs), enumerate(g).files[k]) : k \in DOMAIN enumerate(g).files}
        \cup (IF \E k \in DOMAIN g.paths : MissingPath(g, k) /\ Glob(FS(g.fs), Clean(g.paths[k])).err = "nil"
                                           /\ Glob(FS(g.fs), Clean(g.paths[k])).matches = <<>>
              THEN {"ErrNotExist"} ELSE {})
        \cup (IF \E k \in DOMAIN g.paths : ~ValidPath(Clean(g.paths[k])) THEN {"ErrInvalid"} ELSE {})
        \cup (IF ~g.exactFile /\ \E k \in DOMAIN g.paths : Glob(FS(g.fs), Clean(g.paths[k])).err # "nil"
              THEN {"ErrBadPattern"} ELSE {})
        \cup (IF g.exactFile /\ \E k \in DOMAIN g.paths :
                    Clean(g.paths[k]) \in DOMAIN FS(g.fs) /\ FS(g.fs)[Clean(g.paths[k])].type = "dir"
              THEN {"ErrInvalid"} ELSE {}))
    \ {"nil"}

\* the errors record collection is to pass over; a missing file of an
\* exact-file group is the one not-exist error that is reported (as
\* ErrFileMissing)
Swallowed(g) == IF g.exactFile THEN {"ErrPermission"} ELSE {"ErrPermission", "ErrNotExist"}

\* group g fails for a reason that is no filesystem error
CodecFailure(g) == toRecords(g).err \in {"ErrDecoding", "ErrCodecNotFound"}

\* C12: (the statement as the specification gives it) when the filesystem
\* errors the last group read meets are all permission errors or files that
\* are gone, the call returns no error; when they are all of another kind,
\* the call returns an error and no records.
C12_ErrorsSwallowed ==
    LET fgs == fgOut.fgs
        out == fgOut.out
        n == Len(out.read)
    IN n > 0 =>
          /\ (/\ Faults(fgs[n]) # {}
              /\ Faults(fgs[n]) \subseteq Swallowed(fgs[n])
              /\ ~CodecFailure(fgs[n]))
                => out.err = "nil"
          /\ (/\ Faults(fgs[n]) # {}
              /\ Faults(fgs[n]) \cap {"ErrPermission", "ErrNotExist"} = {})
                => out.err # "nil" /\ out.rv = <<>>

\* C12, as far as it holds: a permission error or a missing path met while a
\* group enumerates, and a file of a group that may be incomplete that is gone
\* when it is opened to be read, end without an error; every other filesystem
\* error ends the call with an error and no records.
C12_EnumerationErrorsSwallowed ==
    LET fgs == fgOut.fgs
        out == fgOut.out
        n == Len(out.read)
    IN n > 0 =>
          /\ (/\ Faults(fgs[n]) # {}
              /\ Faults(fgs[n]) \subseteq Swallowed(fgs[n])
              /\ ~CodecFailure(fgs[n])
              /\ \A k \in DOMAIN enumerate(fgs[n]).files :
                    OpenLaterErr(FS(fgs[n].fs), enumerate(fgs[n]).files[k]) # "ErrPermission")
                => out.err = "nil"
          /\ (/\ Faults(fgs[n]) # {}
              /\ Faults(fgs[n]) \cap {"ErrPermission", "ErrNotExist"} = {})
                => out.err # "nil" /\ out.rv = <<>>

\* a call whose one group found 1.json readable while enumerating and was
\* refused when it opened the file to read it: the call returns the permission
\* error
C12_Witness ==
    /\ Len(fgOut.fgs) = 1
    /\ fgOut.fgs[1].fs = "racy"
    /\ enumerate(fgOut.fgs[1]) = [files |-> <<"1.json">>, err |-> "nil"]
    /\ Faults(fgOut.fgs[1]) = {"ErrPermission"}
    /\ fgOut.out.err = "ErrPermission"

\* the extension that selects the decoder of a file of group g: the group's
\* "as" when it is given, the file's own extension otherwise
EffectiveExt(g, file) == IF g.as # "" THEN TrimDot(g.as) ELSE Ext(Base(file))

\* group g enumerates exactly one file, which opens, and nobody registered a
\* decoder for its effective extension
NoDecoder(g) ==
    /\ enumerate(g).err = "nil"
    /\ Len(enumerate(g).files) = 1
    /\ OpenLaterErr(FS(g.fs), enumerate(g).files[1]) = "nil"
    /\ EffectiveExt(g, enumerate(g).files[1]) \notin DecoderExts

\* C13: when a group read by filegroupsToRecords matches one file whose
\* effective extension (the group's "as", which overrides the file's
\* extension, or else the file's extension) has no registered decoder, an
\* exact-file group ends the call with an error and no records, and any other
\* group is passed over: it adds no record, raises no error, and the next
\* group is read.
C13_NoDecoder ==
    LET fgs == fgOut.fgs
        out == fgOut.out
        n == Len(out.read)
    IN \A i \in 1..n :
          NoDecoder(fgs[i]) =>
              IF fgs[i].exactFile
              THEN /\ i = n
                   /\ out.err # "nil"
                   /\ out.rv = <<>>
              ELSE /\ i < Len(fgs) => i < n
                   /\ i = n => out.err = "nil"
                   /\ Len(fgs) = 1 => out.rv = <<>>

\* a call on two groups: example.json read "as" yml by a group that may be
\* incomplete is passed over although json has a decoder, then notes.txt of
\* an exact-file group ends the call with an error
C13_Witness ==
    /\ Len(fgOut.fgs) = 2
    /\ fgOut.fgs[1].as = "yml"
    /\ ~fgOut.fgs[1].exactFile
    /\ Ext(Base(enumerate(fgOut.fgs[1]).files[1])) \in DecoderExts
    /\ NoDecoder(fgOut.fgs[1])
    /\ fgOut.fgs[2].exactFile
    /\ NoDecoder(fgOut.fgs[2])
    /\ fgOut.out.read = <<1, 2>>
    /\ fgOut.out.err = "ErrCodecNotFound"
    /\ fgOut.out.rv = <<>>

\* ---- Marshal and Unmarshal ---------------------------------------------------

\* the recorded call has returned and not yet released the mutex
Returned(o) == pc[1] = "ret" /\ ret[1].op = o /\ call.op = o

\* C14: on a Config whose compiledAt is the zero time (no Compile has
\* succeeded), every Marshal and every Unmarshal call returns ErrNotCompiled
\* from the first return statement of the call: whatever options, key and
\* outcomes of fetch, decoder, validator and encoder the call would meet, no
\* option error, fetch error, decode or encode error is returned, and nothing
\* is output.
C14_NotCompiled ==
    (/\ compiledAt = 0
     /\ Returned("Marshal") \/ Returned("Unmarshal"))
        => /\ ret[1].err = "ErrNotCompiled"
           /\ ret[1].exit = "notCompiled"
           /\ ret[1].out = NoOutput

\* an Unmarshal call with an option that fails, on a Config whose default
\* options fail too and whose records do not compile: it returned
\* ErrNotCompiled
C14_Witness ==
    /\ compiledAt = 0
    /\ Returned("Unmarshal")
    /\ unmarshalOptions = <<Opt("WithError", TRUE)>>
    /\ call.args.opts = <<Opt("WithError", TRUE)>>
    /\ Len(defaults) > 0
    /\ compileInternal(FALSE).err # "nil"
    /\ ret[1].err = "ErrNotCompiled"

\* C15: no step of a Marshal or an Unmarshal call, from taking the mutex to
\* releasing it, changes the Config's compiled tree or its compiledAt,
\* whether the call succeeds or fails; that holds for Marshal with
\* RedactSecrets and with OnlyDefaults, whose redacted and defaults-only
\* trees go to the output alone.
C15_CallsKeepTree ==
    [][(\/ pc[1] = "idle" /\ pc'[1] = "locked" /\ op'[1] \in {"Marshal", "Unmarshal"}
        \/ pc[1] # "idle" /\ op[1] \in {"Marshal", "Unmarshal"})
          => tree' = tree /\ compiledAt' = compiledAt]_vars

\* a Marshal with OnlyDefaults on a Config whose default options redact
\* secrets has returned the redacted defaults-only tree, which differs from
\* the compiled tree both in the value of a and in the redacted b
C15_Witness ==
    /\ Returned("Marshal")
    /\ marshalOptions = <<Opt("RedactSecrets", TRUE)>>
    /\ call.args.opts = <<Opt("OnlyDefaults", TRUE)>>
    /\ ret[1].err = "nil"
    /\ ret[1].exit = "encoded"
    /\ tree = compileInternal(FALSE).merged
    /\ tree.Kind = "map"
    /\ DOMAIN tree.Map = {"a", "b"}
    /\ ret[1].out[3] = ToRaw(ToRedacted(compileInternal(TRUE).merged))
    /\ ret[1].out[3].Map["a"] # ToRaw(tree).Map["a"]
    /\ ret[1].out[3].Map["b"] # ToRaw(tree).Map["b"]

\* ---- Expand with a nil expander -------------------------------------------

\* C16: (the statement as the specification gives it) an Expand directive
\* whose expander is nil is rejected with an error when it is applied as an
\* option.
C16_NilProviderRejected ==
    (call.op = "Expand" /\ call.args.expander = "nil") => call.err # "nil"

\* C16: an Expand directive whose expander is nil raises no error when it is
\* applied as an option: it is dropped there, so the expansions of the
\* options never hold a directive with a nil expander and no ToExpanded call
\* of expandTree is ever made for one.
C16_NilProviderDropped ==
    /\ (call.op = "Expand" /\ call.args.expander = "nil") => call.err = "nil"
    /\ \A i \in DOMAIN expansions : expansions[i].expander # "nil"
    /\ \A i \in DOMAIN expOut.exps : expOut.exps[i].expander # "nil"
    /\ \A k \in DOMAIN expOut.out.log :
          expOut.exps[expOut.out.log[k].directive].expander # "nil"

\* a directive with a nil expander was applied after another directive: no
\* error, and the options still hold the one directive
C16_Witness ==
    /\ call.op = "Expand"
    /\ call.args.expander = "nil"
    /\ call.err = "nil"
    /\ Len(expansions) = 1
    /\ expansions[1].expander = "env"

\* ---- Unmarshal: Optional and Required --------------------------------------

\* what the last Optional or Required of an option list asks for: TRUE when
\* a missing key is allowed; Required is the default
RECURSIVE LastOptional(_)
LastOptional(full) ==
    IF full = <<>> THEN FALSE
    ELSE IF full[Len(full)].kind = "Optional" THEN full[Len(full)].val
    ELSE IF full[Len(full)].kind = "Required" THEN ~full[Len(full)].val
    ELSE LastOptional(SubSeq(full, 1, Len(full) - 1))

\* the options of the recorded Unmarshal call: the Config's defaults, then
\* the options given to the call
FullOptions == unmarshalOptions \o call.args.opts

\* C17: an Unmarshal call on a compiled Config, none of whose options fails,
\* for a key whose fetch fails: when the key is not found the call returns the
\* not-found error if the last Optional/Required among the Config's default
\* unmarshal options followed by the call's options asks for Required (the
\* default when there is none), and returns no error and the empty result if
\* it asks for Optional; a fetch error other than not-found is returned
\* either way.
C17_OptionalRequired ==
    (/\ Returned("Unmarshal")
     /\ compiledAt # 0
     /\ call.args.key # ""
     /\ \A i \in DOMAIN FullOptions : FullOptions[i].kind # "WithError")
        => LET f == Fetch(tree, KeyPath(call.args.key))
           IN /\ (f.err = "ErrNotFound" /\ ~LastOptional(FullOptions))
                    => ret[1].err = "ErrNotFound" /\ ret[1].out = NoOutput
              /\ (f.err = "ErrNotFound" /\ LastOptional(FullOptions)
                    /\ ~call.args.decodeFails /\ ~call.args.validatorFails)
                    => ret[1].err = "nil" /\ ret[1].out = <<ToRaw(EmptyObject)>>
              /\ f.err \notin {"nil", "ErrNotFound"}
                    => ret[1].err = f.err /\ ret[1].out = NoOutput

\* the Config's default options say Optional, the call says Required, and the
\* key is missing from the compiled tree: the call returned not-found
C17_Witness ==
    /\ Returned("Unmarshal")
    /\ compiledAt # 0
    /\ unmarshalOptions = <<Opt("Optional", TRUE)>>
    /\ call.args.opts = <<Opt("Required", TRUE)>>
    /\ call.args.key = "zz"
    /\ ret[1].err = "ErrNotFound"

\* Optional on a key whose fetch fails with a type mismatch: the error is
\* returned
C17_WitnessMismatch ==
    /\ Returned("Unmarshal")
    /\ compiledAt # 0
    /\ LastOptional(FullOptions)
    /\ ret[1].err = "ErrTypeMismatch"

\* ---- calcUnified -------------------------------------------------------------

\* the recorded calcUnified call
Unified == call.op = "calcUnified"

IsStruct(d) == d.Type \notin {"nil", "array"}

\* array-shaped data at a position: a documentation object of array type, or
\* compiled array elements
ArrayShaped(d, c) == d.Type = "array" \/ Len(c.Array) > 0

\* map-shaped data at a position: compiled map entries, or children of a
\* documentation object that is no array
MapShaped(d, c) == DOMAIN c.Map # {} \/ (IsStruct(d) /\ DOMAIN d.Children # {})

\* the keyed positions below a position, and what is found at each
PosKeys(d, c) == (IF IsStruct(d) THEN DOMAIN d.Children ELSE {}) \cup DOMAIN c.Map
KeyDoc(d, k) == IF IsStruct(d) /\ k \in DOMAIN d.Children THEN d.Children[k] ELSE NilDoc
KeyObject(c, k) == IF k \in DOMAIN c.Map THEN c.Map[k] ELSE NilObject

\* the documentation of the array's element at index i - 1
ElemDoc(d, i) ==
    IF i = 1 /\ d.Type = "array" /\ NAME_ARRAY \in DOMAIN d.Children
    THEN d.Children[NAME_ARRAY]
    ELSE NilDoc

\* some position at or below (d, c), not below a key of skip, holds
\* array-shaped and map-shaped data together
RECURSIVE ConflictAt(_, _, _)
ConflictAt(d, c, skip) ==
    \/ ArrayShaped(d, c) /\ MapShaped(d, c)
    \/ \E k \in PosKeys(d, c) \ skip : ConflictAt(KeyDoc(d, k), KeyObject(c, k), skip)
    \/ \E i \in 1..Len(c.Array) : ConflictAt(ElemDoc(d, i), c.Array[i], skip)

\* some position at or below (d, c) has the reserved array-element or
\* embedded name among its keys
RECURSIVE ReservedAt(_, _)
ReservedAt(d, c) ==
    \/ PosKeys(d, c) \cap {NAME_ARRAY, NAME_EMBEDDED} # {}
    \/ \E k \in PosKeys(d, c) : ReservedAt(KeyDoc(d, k), KeyObject(c, k))
    \/ \E i \in 1..Len(c.Array) : ReservedAt(ElemDoc(d, i), c.Array[i])

\* no unified tree came back
NoTree(u) == u.children = EmptyMap /\ ~u.array /\ u.value = <<>>

MapHandling(d, c) == MapShaped(d, c) /\ ~ArrayShaped(d, c)

\* the keys map handling emits as children
EmittedKeys(d, c) == PosKeys(d, c) \ {NAME_MAP_KEY, NAME_MAP_VALUE}

\* C19: in map handling the children of the unified node are exactly the keys
\* of the documentation children and the compiled map other than the reserved
\* map-key and map-value names, each child being the unified node of its key
\* (given that every one of them can be built); if the reserved array-element
\* or embedded name is among the keys, calcUnified fails.
C19_MapChildren ==
    Unified /\ MapHandling(call.doc, call.compiled) =>
        /\ PosKeys(call.doc, call.compiled) \cap {NAME_ARRAY, NAME_EMBEDDED} # {} =>
               call.out.err # "nil" /\ NoTree(call.out.u)
        /\ call.out.err = "nil" =>
               DOMAIN call.out.u.children = EmittedKeys(call.doc, call.compiled)
        /\ (/\ PosKeys(call.doc, call.compiled) \cap {NAME_ARRAY, NAME_EMBEDDED} = {}
            /\ \A k \in EmittedKeys(call.doc, call.compiled) :
                   calcUnifiedInternal(k, 0, KeyDoc(call.doc, k),
                                       KeyObject(call.compiled, k)).err = "nil")
           => /\ call.out.err = "nil"
              /\ \A k \in EmittedKeys(call.doc, call.compiled) :
                     call.out.u.children[k] =
                         calcUnifiedInternal(k, 0, KeyDoc(call.doc, k),
                                             KeyObject(call.compiled, k)).u

\* a map built from a documented key, a compiled key and a reserved map-key name
C19_Witness ==
    /\ Unified
    /\ MapHandling(call.doc, call.compiled)
    /\ call.out.err = "nil"
    /\ PosKeys(call.doc, call.compiled) = {"1", "a", "b", NAME_MAP_KEY}
    /\ DOMAIN call.doc.Children = {"a", "b"}
    /\ DOMAIN call.out.u.children = {"1", "a", "b"}

\* the root is handled as an array: compiled elements and no map-shaped data
ArrayHandling(d, c) == Len(c.Array) > 0 /\ ~MapShaped(d, c)

\* the decimal string of an index
Decimal(i) ==
    <<"0", "1", "2", "3", "4", "5", "6", "7", "8", "9", "10", "11", "12">>[i + 1]

\* C20: in array handling each compiled array element i becomes the child keyed
\* by the decimal string of i; the per-element documentation is attached to
\* element 0, and every element with index 1 or greater has no documentation
\* object.
C20_ArrayChildren ==
    Unified /\ ArrayHandling(call.doc, call.compiled) /\ call.out.err = "nil" =>
        /\ call.out.u.array
        /\ DOMAIN call.out.u.children = {Decimal(i - 1) : i \in 1..Len(call.compiled.Array)}
        /\ \A i \in 1..Len(call.compiled.Array) :
               /\ call.out.u.children[Decimal(i - 1)].doc \in
                      {ElemDoc(call.doc, i), IF i = 1 THEN call.doc ELSE NilDoc}
               /\ i > 1 => call.out.u.children[Decimal(i - 1)] =
                      calcUnifiedInternal(NilKey, 0, NilDoc, call.compiled.Array[i]).u
               /\ call.out.u.children[Decimal(i - 1)] \in
                      {calcUnifiedInternal(NilKey, 0, dd, call.compiled.Array[i]).u :
                           dd \in {ElemDoc(call.doc, i), call.doc, NilDoc}}
        /\ NAME_ARRAY \in DOMAIN call.doc.Children =>
               call.out.u.children["0"].doc = call.doc.Children[NAME_ARRAY]

\* an array of two elements or more whose element documentation went to "0" only
C20_Witness ==
    /\ Unified
    /\ ArrayHandling(call.doc, call.compiled)
    /\ Len(call.compiled.Array) >= 2
    /\ call.doc.Type = "array"
    /\ NAME_ARRAY \in DOMAIN call.doc.Children
    /\ call.out.err = "nil"
    /\ call.out.u.children["0"].doc = call.doc.Children[NAME_ARRAY]
    /\ call.out.u.children["1"].doc = NilDoc
    /\ call.out.u.children["1"].value = <<"v">>

\* an array of eleven elements: the last one is keyed "10"
C20_WitnessTen ==
    /\ Unified
    /\ Len(call.compiled.Array) = 11
    /\ call.out.err = "nil"
    /\ "10" \in DOMAIN call.out.u.children

\* ---- unified.Headers ---------------------------------------------------------

\* the deprecation banner of a node, as a list of lines
Banner(u) == IF u.doc # NilDoc /\ u.doc.Deprecated THEN <<noticeDeprecated>> ELSE <<>>

\* the default line of a node, as a list of lines
DefaultLine(u) == IF u.preset.set THEN <<"default: " \o u.preset.text>> ELSE <<>>

\* lines are the lines of text: no line holds a newline, and the lines joined
\* by newlines are the text
LinesOf(lines, text) ==
    /\ Len(lines) >= 1
    /\ \A i \in DOMAIN lines : ~Contains(lines[i], "\n")
    /\ Join(lines, "\n") = text

\* out is: the banner, the doc text lines, then post
HeadersAre(u, out, post) ==
    /\ Len(out) >= Len(Banner(u)) + Len(post)
    /\ SubSeq(out, 1, Len(Banner(u))) = Banner(u)
    /\ SubSeq(out, Len(out) - Len(post) + 1, Len(out)) = post
    /\ IF u.doc = NilDoc
       THEN Len(out) = Len(post)
       ELSE LinesOf(SubSeq(out, Len(Banner(u)) + 1, Len(out) - Len(post)), u.doc.Doc)

C21_WitnessAll ==
    /\ call.op = "Headers"
    /\ call.out = <<"!!! DEPRECATED !!!", "x", "x", "type: <int>", "default: 42",
                    "!!! DEPRECATED !!!">>

\* ---- unified.childKeys ---------------------------------------------------------

Range(seq) == {seq[i] : i \in DOMAIN seq}

\* a comes before b in the claimed order: numbers first in ascending value,
\* equal values by their strings, then the other keys in byte order
Before(a, b) ==
    \/ ParseFloat(a).ok /\ ~ParseFloat(b).ok
    \/ /\ ParseFloat(a).ok /\ ParseFloat(b).ok
       /\ \/ FloatLess(ParseFloat(a), ParseFloat(b))
          \/ FloatEqual(ParseFloat(a), ParseFloat(b)) /\ StringLess(a, b)
    \/ ~ParseFloat(a).ok /\ ~ParseFloat(b).ok /\ StringLess(a, b)

InClaimedOrder(keys) == \A i, j \in DOMAIN keys : i < j => ~Before(keys[j], keys[i])

\* C22: childKeys returns the keys in one order that depends only on the set
\* of keys and not on the order the map's range gave them: numbers first in
\* ascending value, equal values by their strings, then the other keys in byte
\* order.
C22_KeysOrder ==
    call.op = "childKeys" =>
        /\ InClaimedOrder(call.out)
        /\ \A keys \in RangeOrders(Range(call.keys)) : childKeys(keys) = call.out

\* C22, as far as it holds: with no key that parses as the not-a-number
C22_KeysOrderNoNaN ==
    call.op = "childKeys" /\ (\A k \in Range(call.keys) : ~ParseFloat(k).nan) =>
        /\ InClaimedOrder(call.out)
        /\ \A keys \in RangeOrders(Range(call.keys)) : childKeys(keys) = call.out

\* numeric and other keys sorted as claimed
C22_Witness ==
    /\ call.op = "childKeys"
    /\ call.keys = <<"a", "10", "2">>
    /\ call.out = <<"2", "10", "a">>

\* the same three keys in two orders, by the order the range gave them
C22_WitnessNaN ==
    /\ call.op = "childKeys"
    /\ call.keys = <<"2", "NaN", "1">>
    /\ call.out = <<"2", "NaN", "1">>
    /\ childKeys(<<"1", "2", "NaN">>) = <<"1", "2", "NaN">>

\* ---- formatValue ----------------------------------------------------------------

\* the character an escape of a double-quoted string stands for
Unescaped(c) ==
    CASE c = "n" -> "\n"
      [] c = "t" -> "\t"
      [] c = "r" -> "\r"
      [] c = "f" -> "\f"
      [] OTHER -> c

RECURSIVE Unescape(_)
Unescape(s) ==
    IF s = "" THEN ""
    ELSE IF At(s, 1) = "\\" /\ Len(s) >= 2 THEN Unescaped(At(s, 2)) \o Unescape(From(s, 3))
    ELSE At(s, 1) \o Unescape(From(s, 2))

\* the chunks of a double-quoted string put together: every chunk but the
\* last ends with the backslash that continues the line
RECURSIVE JoinChunks(_)
JoinChunks(lines) ==
    IF Len(lines) = 1 THEN lines[1]
    ELSE SubSeq(lines[1], 1, Len(lines[1]) - 1) \o JoinChunks(Tail(lines))

Unquote(s) == SubSeq(s, 2, Len(s) - 1)

ReadFlow(text) ==
    IF HasPrefix(text, "\"") THEN Unescape(Unquote(text))
    ELSE IF HasPrefix(text, "'") THEN Unquote(text)
    ELSE text

\* the string the formatted lines denote
ReadBack(out) ==
    CASE out.style = "|-" -> Join(out.lines, "\n")
      [] out.style = "|" -> Join(out.lines, "\n") \o "\n"
      [] out.style = ">-" -> Join(out.lines, " ")
      [] OTHER -> ReadFlow(JoinChunks(out.lines))

Formats == call.op = "formatValue" /\ call.v # <<>> /\ call.out.lines # Diverges

\* C23: the lines formatValue returns for a string denote that string: plain
\* and single-quoted forms reproduce it, literal block lines joined by
\* newlines (plus the final newline for "|") reproduce it, folded lines joined
\* by single spaces reproduce it, and the double-quoted chunks unescape to it.
C23_RoundTrip == Formats => ReadBack(call.out) = call.v[1]

\* C23, as far as it holds: for every form but the folded one
C23_RoundTripUnfolded == Formats /\ call.out.style # ">-" => ReadBack(call.out) = call.v[1]

\* a folded value that lost the tab between its words
C23_Witness ==
    /\ Formats
    /\ call.v = <<"a\ta">>
    /\ call.maxLineLength = 2
    /\ call.out = Formatted(<<"a", "a">>, ">-")
    /\ ReadBack(call.out) = "a a"

\* a double-quoted value in chunks that unescape to it
C23_WitnessChunks ==
    /\ Formats
    /\ call.v = <<" a a">>
    /\ call.maxLineLength = 4
    /\ call.out.style = ""
    /\ Len(call.out.lines) > 1
    /\ ReadBack(call.out) = " a a"

\* ---- FormatAsYAMLOptions ----------------------------------------------------------

\* the defaults the comments of FormatAsYAMLOptions document
DefaultMaxLineLength == 80
DefaultTrailingCommentColumn == 80
DefaultSpacesPerIndent == 2

WithDefault(n, default) == IF n < 1 THEN default ELSE n

\* the renderer with every field below 1 replaced by its documented default
DocumentedRenderer(f) ==
    Renderer(WithDefault(f.MaxLineLength, DefaultMaxLineLength),
             WithDefault(f.TrailingCommentColumn, DefaultTrailingCommentColumn),
             WithDefault(f.SpacesPerIndent, DefaultSpacesPerIndent))

RendersYAML == call.op = "FormatAsYAML"

\* C24: a node is rendered as with every FormatAsYAMLOptions field below 1
\* replaced by its documented default: lines wrap at 80, trailing comments
\* start at column 80, and a level is indented by 2 spaces.
C24_DocumentedDefaults ==
    RendersYAML =>
        call.out = renderWith(DocumentedRenderer(call.f), call.level, call.val,
                              keyLine(DocumentedRenderer(call.f), call.level, <<"k">>))

\* C24, as far as it holds: SpacesPerIndent below 1 indents by 2 spaces
C24_SpacesPerIndentDefault ==
    RendersYAML => call.out.line = keyLine(DocumentedRenderer(call.f), call.level, <<"k">>)

\* a renderer whose MaxLineLength is 0 does not wrap at all, where one with
\* 80 leaves 77 columns after the key
C24_Witness ==
    /\ RendersYAML
    /\ call.f = FormatAsYAMLOptions(0, 80, 0)
    /\ call.level = 1
    /\ call.out.line = "  k:"
    /\ call.out.maxLineLength = MaxInt
    /\ maxLineLength(DocumentedRenderer(call.f), Len(call.out.line) - 1) = 77

\* ---- chunkString terminates ----------------------------------------------------

InChunkString == call.op = "chunkString"

\* C25: chunkString(s, n) returns for every n of 1 or more, maxLineLength 1
\* included.
C25_Terminates == InChunkString ~> (InChunkString /\ call.done)

\* C25, its reason: no iteration of the loop splits a non-empty rest at 0
C25_Consumes ==
    InChunkString /\ ~call.done /\ Len(call.remaining) > 0 =>
        findBestSplitPoint(call.remaining, call.n) > 0

\* C25, as far as it holds: chunkString returns for every n of 2 or more
C25_TerminatesFrom2 == (InChunkString /\ call.n >= 2) ~> (InChunkString /\ call.done)

\* what the loop returns is what chunkString is taken to return elsewhere
C25_SameChunks == InChunkString /\ call.done => call.lines = chunkString(call.s, call.n)

\* with n = 1 the loop has run more often than s has characters and has
\* consumed none of them
C25_Witness ==
    /\ InChunkString
    /\ call.val = "aa"
    /\ call.n = 1
    /\ ~call.done
    /\ call.remaining = call.s
    /\ Len(call.lines) > Len(call.s)
    /\ findBestSplitPoint(call.remaining, call.n) = 0

\* ---- record collection: a missing path in a group of several ------------------

\* a group that need not be complete, with several paths, one of them missing
\* and every other one held by the filesystem
MissingPathGroup(g) ==
    /\ ~g.exactFile
    /\ Len(g.paths) > 1
    /\ \E k \in DOMAIN g.paths :
          /\ MissingPath(g, k)
          /\ Glob(FS(g.fs), Clean(g.paths[k])) = [err |-> "nil", matches |-> <<>>]
    /\ \A k \in DOMAIN g.paths :
          MissingPath(g, k) \/ Clean(g.paths[k]) \in DOMAIN FS(g.fs)

WithoutGroup(fgs, i) == SubSeq(fgs, 1, i - 1) \o SubSeq(fgs, i + 1, Len(fgs))

\* C26: a group that need not be complete and has several paths, one of which
\* matches nothing and does not exist, yields no records at all (the files of
\* its other paths are not collected) and no error, its halt flag does not
\* fire, and the groups after it are read: the call returns what it returns
\* without that group.
C26_MissingPathDropsGroup ==
    \A i \in DOMAIN fgOut.out.read :
        MissingPathGroup(fgOut.fgs[i]) =>
            /\ toRecords(fgOut.fgs[i]).list = <<>>
            /\ i < Len(fgOut.fgs) => Len(fgOut.out.read) > i
            /\ i = Len(fgOut.out.read) => fgOut.out.err = "nil"
            /\ fgOut.out.rv = filegroupsToRecords(WithoutGroup(fgOut.fgs, i)).rv
            /\ fgOut.out.err = filegroupsToRecords(WithoutGroup(fgOut.fgs, i)).err

\* a halting group naming 1.json and then gone.json, then a group that yields
\* a record: the first yields nothing although 1.json is there, and the
\* second is read
C26_Witness ==
    /\ Len(fgOut.fgs) = 2
    /\ MissingPathGroup(fgOut.fgs[1])
    /\ fgOut.fgs[1].halt
    /\ PlainFile(fgOut.fgs[1], 1)
    /\ MissingPath(fgOut.fgs[1], 2)
    /\ fgOut.out.read = <<1, 2>>
    /\ fgOut.out.err = "nil"
    /\ Len(fgOut.out.rv) = 1
    /\ fgOut.out.rv = toRecords(fgOut.fgs[2]).list

\* ---- expandTree: the changed flag ---------------------------------------------

\* the ToExpanded calls of the last pass that ran
LastPassEntries(log) == {i \in DOMAIN log : log[i].pass = log[Len(log)].pass}

\* no lookup succeeded during the last pass of a call that ran at least one
NothingFoundInLastPass(e) ==
    /\ e.max >= 1
    /\ e.exps # <<>> => e.out.log # <<>>
    /\ \A i \in LastPassEntries(e.out.log) : ~e.out.log[i].found

\* a call that reports convergence after a lookup succeeded in pass k (the
\* pass numbered k - 1) was allowed at least k + 1 passes
ConvergedOnePassLater(e) ==
    \A i \in DOMAIN e.out.log :
        e.out.log[i].found => e.max >= (e.out.log[i].pass + 1) + 1

\* a call with max below 1 makes no ToExpanded call, returns its input and
\* reports changed
NoPassReportsChanged(e) ==
    e.max < 1 => e.out.log = <<>> /\ e.out.obj = e.in /\ e.out.changed

\* C27: (the statement as the specification gives it) expandTree returns
\* changed = false only when it ran at least one pass and no lookup succeeded
\* during its last pass; so a tree resolved in pass k is reported as converged
\* only if max is at least k + 1, and with max below 1 nothing is expanded and
\* changed = true is returned.
C27_ChangedOnlyAfterQuietPass ==
    /\ ~expOut.out.changed =>
          NothingFoundInLastPass(expOut) /\ ConvergedOnePassLater(expOut)
    /\ NoPassReportsChanged(expOut)

\* C27, amended: the same for a call that returns no error; a call that
\* returns an error returns changed = false whatever its last pass found.
C27_ChangedFlag ==
    /\ (~expOut.out.changed /\ expOut.out.err = "nil") =>
          NothingFoundInLastPass(expOut) /\ ConvergedOnePassLater(expOut)
    /\ expOut.out.err # "nil" => ~expOut.out.changed
    /\ NoPassReportsChanged(expOut)

\* ${B} is resolved in the first pass and max is 2: the second pass finds
\* nothing and the call reports convergence
C27_Witness ==
    /\ expOut.max = 2
    /\ expOut.out.err = "nil"
    /\ ~expOut.out.changed
    /\ \E i \in DOMAIN expOut.out.log : expOut.out.log[i].pass = 0 /\ expOut.out.log[i].found
    /\ \A i \in DOMAIN expOut.out.log : expOut.out.log[i].pass = 1 => ~expOut.out.log[i].found
    /\ expOut.out.log[Len(expOut.out.log)].pass = 1

\* the same tree with max 1: resolved, and reported as changed
C27_WitnessNotConverged ==
    /\ expOut.max = 1
    /\ expOut.out.err = "nil"
    /\ expOut.out.changed
    /\ expOut.out.obj = expandTree(expOut.in, 2, expOut.exps).obj
    /\ ~expandTree(expOut.in, 2, expOut.exps).changed

\* a call with max 0 on a tree with a placeholder a directive would resolve
C27_WitnessNoPass ==
    /\ expOut.max = 0
    /\ expOut.exps # <<>>
    /\ expandTree(expOut.in, 1, expOut.exps).obj # expOut.in
    /\ expOut.out.log = <<>>
    /\ expOut.out.changed

\* a call that failed after a lookup succeeded in its last pass
C27_WitnessError ==
    /\ expOut.out.err # "nil"
    /\ ~expOut.out.changed
    /\ \E i \in LastPassEntries(expOut.out.log) : expOut.out.log[i].found

\* ---- Renderer.Encode: one node, one line --------------------------------------

Encodes == call.op = "Encode"

\* C28: in what Encode writes, the output of every node that another node
\* follows ends with a newline, whatever the style of its value, so no two
\* nodes share a line.
C28_NodesEndWithNewline ==
    Encodes =>
        \A i \in 1..(Len(call.nodes) - 1) :
            call.nodes[i] # "" => HasSuffix(call.nodes[i], "\n")

\* C28, as far as it holds: for every style but the "|" block
C28_NodesEndWithNewlineButClip ==
    Encodes =>
        \A i \in 1..(Len(call.nodes) - 1) :
            (call.nodes[i] # "" /\ ~Contains(call.nodes[i], "|\n")) =>
                HasSuffix(call.nodes[i], "\n")

\* a node whose value ends with a newline and its child: the child's key
\* follows the last line of the block on the same line
C28_Witness ==
    /\ Encodes
    /\ call.r = Renderer(0, 0, 0)
    /\ call.item = Encodeable(<<"a">>, <<"x\ny\n">>, 0, <<>>, <<>>,
                              <<Encodeable(<<"1">>, <<"v">>, 1, <<>>, <<>>, <<>>)>>)
    /\ call.nodes = <<"a: |\n  x\n  y", "  1: v\n">>
    /\ call.out = "---\na: |\n  x\n  y  1: v\n\n"

\* the document of the package's own test: one node, the block ends the text
C28_WitnessAlone ==
    /\ Encodes
    /\ call.item = Encodeable(<<"a">>, <<"x\ny\n">>, 0, <<"h">>, <<>>, <<>>)
    /\ call.out = "---\n# h\na: |\n  x\n  y\n"

\* ---- calcUnified: the first element of an array ------------------------------

\* the array's documentation object exists and has no array-element child
NoElementDoc(d) == d # NilDoc /\ NAME_ARRAY \notin DOMAIN d.Children

\* a compiled object with neither array elements nor map entries
ScalarShaped(c) == Len(c.Array) = 0 /\ DOMAIN c.Map = {}

\* C29: when calcUnified handles an array whose documentation object exists
\* but has no reserved array-element child, element 0 is unified against the
\* array's own documentation object: a scalar element 0 carries the array's
\* doc and yields the array's doc and type header lines again, and when the
\* documentation object is array-typed a map-shaped element 0 makes calcUnified
\* fail with the conflicting-definitions error.
C29_FirstElementGetsArrayDoc ==
    Unified /\ ArrayHandling(call.doc, call.compiled) /\ NoElementDoc(call.doc) =>
        /\ call.out.err = "nil" =>
               /\ call.out.u.children["0"].doc = call.doc
               /\ call.out.u.children["0"] =
                      calcUnifiedInternal(NilKey, 0, call.doc, call.compiled.Array[1]).u
        /\ ScalarShaped(call.compiled.Array[1]) /\ call.out.err = "nil" =>
               /\ call.out.u.children["0"].value = call.compiled.Array[1].Value
               /\ call.out.u.children["0"].children = EmptyMap
               /\ Headers(call.out.u.children["0"]) = Headers(call.out.u)
               /\ Headers(call.out.u.children["0"]) =
                      Split(call.doc.Doc, "\n") \o <<"type: " \o TypeString(call.doc)>>
        /\ call.doc.Type = "array" /\ DOMAIN call.compiled.Array[1].Map # {} =>
               /\ call.out.err = ErrConflicting
               /\ NoTree(call.out.u)

\* an array documented as an array with no element documentation: its scalar
\* element 0 shows the array's header, the next element none
C29_Witness ==
    /\ Unified
    /\ call.doc = Doc("array", EmptyMap)
    /\ call.compiled = ArrayOf(<<Leaf, Leaf>>, <<>>)
    /\ call.out.err = "nil"
    /\ call.out.u.children["0"].doc = call.doc
    /\ Headers(call.out.u.children["0"]) = <<"", "type: <array>">>
    /\ Headers(call.out.u.children["1"]) = <<>>

\* the same array with a map as element 0: the conflicting-definitions error
C29_WitnessConflict ==
    /\ Unified
    /\ call.doc = Doc("array", EmptyMap)
    /\ call.compiled = ArrayOf(<<MapOf(One("a", Leaf), <<>>)>>, <<>>)
    /\ call.out.err = ErrConflicting

\* ---- Marshal with IncludeDocumentation ---------------------------------------

\* the options of a call other than FormatAs and IncludeOrigins
NotFormatOrOrigins(opt) == opt.kind \notin {"FormatAs", "IncludeOrigins"}
WithoutFormatOrOrigins(opts) == SelectSeq(opts, NotFormatOrOrigins)

\* the returned Marshal call got its options and a tree that is not empty, and
\* IncludeDocumentation is in effect
Documented ==
    /\ Returned("Marshal")
    /\ compiledAt # 0
    /\ getMarshalOptions(call.args.opts).err = "nil"
    /\ getMarshalOptions(call.args.opts).withDocumentation
    /\ getMarshalTree(getMarshalOptions(call.args.opts)).err = "nil"
    /\ ~getMarshalTree(getMarshalOptions(call.args.opts)).isNil

C30_WitnessNotDocumented ==
    /\ Returned("Marshal")
    /\ marshalOptions = <<>>
    /\ call.args.opts = <<FormatAs("toml")>>
    /\ ret[1].err = "ErrCodecNotFound"

\* IncludeDocumentation in the Config's default options, FormatAs in the call
C30_WitnessDefault ==
    /\ Documented
    /\ marshalOptions = <<Opt("IncludeDocumentation", TRUE)>>
    /\ call.args.opts = <<FormatAs("toml")>>
    /\ ret[1].exit = "document"

====
